---- MODULE Spec2Model ----
(***************************************************************************)
(* Model of the FPL gameweek planning engine (app/tools/analysis.py) and   *)
(* of the planner endpoint that drives it (app/api/routes.py).             *)
(*                                                                         *)
(* Numbers.  The code computes with Python floats.  The model uses exact   *)
(* integers:                                                               *)
(*   form, ict_index        tenths            ("2.7" is 27)                *)
(*   selected_by_percent    whole percent                                  *)
(*   unrounded EP           units of 1/(4*10^7) point  (EPUnit)            *)
(*   rounded EP             hundredths of a point      (round(ep, 2))      *)
(*   now_cost, bank         tenths of a currency unit, as in the code      *)
(***************************************************************************)
EXTENDS Integers, Sequences, FiniteSets, TLC

----------------------------------------------------------------------------
(* Generic helpers standing for Python built-ins *)

\* None where the code holds an optional int
Null == -1

\* A dict built by a comprehension, held as an explicit table
Dict(f) == f @@ << >>

\* A list built by a comprehension, held as an explicit tuple
List(s) == s \o << >>

Min2(a, b) == IF a <= b THEN a ELSE b
Max2(a, b) == IF a >= b THEN a ELSE b

\* set(seq)
ToSet(s) == { s[i] : i \in 1..Len(s) }

\* x in seq
InSeq(x, s) == \E i \in 1..Len(s) : s[i] = x

\* seq[:n]
Take(s, n) == SubSeq(s, 1, Min2(n, Len(s)))

\* seq without its element at index i
DropAt(s, i) == SubSeq(s, 1, i - 1) \o SubSeq(s, i + 1, Len(s))

\* list.remove(x): drops the first occurrence of x
RemoveFirst(s, x) ==
    IF InSeq(x, s)
    THEN DropAt(s, CHOOSE i \in 1..Len(s) : s[i] = x /\ \A j \in 1..(i - 1) : s[j] # x)
    ELSE s

\* sum(f.get(x) for x in seq), f a dict
RECURSIVE SumSeq(_, _)
SumSeq(s, f) == IF s = <<>> THEN 0 ELSE f[Head(s)] + SumSeq(Tail(s), f)

\* list.sort(key=lambda x: key[x], reverse=True): stable, equal keys keep
\* their order
RECURSIVE InsertDesc(_, _, _)
InsertDesc(x, sorted, key) ==
    IF sorted = <<>> THEN <<x>>
    ELSE IF key[Head(sorted)] > key[x]
         THEN <<Head(sorted)>> \o InsertDesc(x, Tail(sorted), key)
         ELSE <<x>> \o sorted

\* Each element, from the last to the first, goes in front of the first one
\* already placed whose key is not greater
RECURSIVE SortDesc(_, _)
SortDesc(s, key) ==
    IF s = <<>> THEN <<>>
    ELSE InsertDesc(Head(s), SortDesc(Tail(s), key), key)

RECURSIVE InsertAsc(_, _, _)
InsertAsc(x, sorted, key) ==
    IF sorted = <<>> THEN <<x>>
    ELSE IF key[Head(sorted)] < key[x]
         THEN <<Head(sorted)>> \o InsertAsc(x, Tail(sorted), key)
         ELSE <<x>> \o sorted

\* Mutant of SortAsc: sorts the wrong way round
SortAsc_Reversed(s, key) == SortDesc(s, key)

\* list.sort(key=lambda x: key[x]): stable ascending
RECURSIVE SortAsc(_, _)
SortAsc(s, key) ==
    IF s = <<>> THEN <<>>
    ELSE InsertAsc(Head(s), SortAsc(Tail(s), key), key)

----------------------------------------------------------------------------
(* Scoring primitives *)

\* Fixed-point scale of the logistic multiplier (thousandths)
SigScale == 1000

\* _sigmoid((recent_minutes - 120) / 60) in thousandths.  The planner only
\* calls it with min(minutes, 180), so the argument lies in [-2, 1]; the
\* table holds the curve at the minutes the model uses.
_sigmoid(minutes) ==
    CASE minutes >= 3120 -> SigScale
      [] minutes <= -2880 -> 0
      [] minutes >= 180 -> 731
      [] minutes >= 150 -> 622
      [] minutes >= 120 -> 500
      [] minutes >= 90  -> 378
      [] minutes >= 60  -> 269
      [] minutes >= 30  -> 182
      [] OTHER -> 119

\* _norm(x, lo, hi) scaled by `scale` (result in 0..scale)
_norm(x, lo, hi, scale) ==
    IF hi = lo THEN 0
    ELSE LET lo_ == IF lo <= hi THEN lo ELSE hi
             hi_ == IF lo <= hi THEN hi ELSE lo
             v   == ((x - lo_) * scale) \div (hi_ - lo_)
         IN  IF x < lo_ THEN 0 ELSE IF x > hi_ THEN scale ELSE v

position_code(element_type) ==
    CASE element_type = 1 -> "GK"
      [] element_type = 2 -> "DEF"
      [] element_type = 3 -> "MID"
      [] element_type = 4 -> "FWD"
      [] OTHER -> "MID"

Positions == {"GK", "DEF", "MID", "FWD"}

\* Mutant of MIN_BY_POS: no forward is required
MIN_BY_POS_NoForward == [pos \in Positions |->
                 CASE pos = "GK" -> 1 [] pos = "DEF" -> 3 [] pos = "MID" -> 2 [] pos = "FWD" -> 0]

MIN_BY_POS == [pos \in Positions |->
                 CASE pos = "GK" -> 1 [] pos = "DEF" -> 3 [] pos = "MID" -> 2 [] pos = "FWD" -> 1]
MAX_BY_POS == [pos \in Positions |->
                 CASE pos = "GK" -> 1 [] pos = "DEF" -> 5 [] pos = "MID" -> 5 [] pos = "FWD" -> 3]

\* formation_str: the D-M-F counts of a lineup
formation_str_MidFirst(ids, positions) ==
    << Len(SelectSeq(ids, LAMBDA i : positions[i] = "MID")),
       Len(SelectSeq(ids, LAMBDA i : positions[i] = "DEF")),
       Len(SelectSeq(ids, LAMBDA i : positions[i] = "FWD")) >>

formation_str(ids, positions) ==
    << Len(SelectSeq(ids, LAMBDA i : positions[i] = "DEF")),
       Len(SelectSeq(ids, LAMBDA i : positions[i] = "MID")),
       Len(SelectSeq(ids, LAMBDA i : positions[i] = "FWD")) >>

\* expected_points_delta in EPUnit = 1/(4*10^7):
\*   6.0 * (0.6*form_n + 0.4*ict_n) * m * d
\* form_n = form/100 (form in tenths), ict_n = ict/200, m = sig/1000, d = dn/4
expected_points_delta_StrongerIsEasier(player, opponent_strength, recent_minutes) ==
    LET form_n == _norm(player.form, 0, 100, 100)
        ict_n  == _norm(player.ict_index, 0, 200, 200)
        mix    == 6 * form_n + 2 * ict_n
        m      == _sigmoid(recent_minutes)
        d      == 4 - _norm(opponent_strength, 5, 1, 4)
    IN  60 * mix * m * d

expected_points_delta(player, opponent_strength, recent_minutes) ==
    LET form_n == _norm(player.form, 0, 100, 100)          \* hundredths
        ict_n  == _norm(player.ict_index, 0, 200, 200)     \* two-hundredths
        mix    == 6 * form_n + 2 * ict_n                   \* thousandths
        m      == _sigmoid(recent_minutes)
        d      == _norm(opponent_strength, 5, 1, 4)        \* quarters
    IN  60 * mix * m * d

\* round(ep, 2): EPUnit to hundredths
Round2(ep) == (ep + 200000) \div 400000

\* min(minutes, 180)
minutes_proxy(player) == Min2(player.minutes, 180)

\* aggregate_epdelta_for_fixtures; total *= 1.1 is exact here because every
\* summand is a multiple of 10
aggregate_epdelta_for_fixtures_NeutralBlank(player, fixtures_rows) ==
    LET pid_minutes == minutes_proxy(player)
        each == [k \in 1..Len(fixtures_rows) |->
                   expected_points_delta(player, fixtures_rows[k].opponent_strength, pid_minutes)]
        total == SumSeq([k \in 1..Len(fixtures_rows) |-> k], each)
    IN  IF Len(fixtures_rows) > 1 THEN (total \div 10) * 11
        ELSE IF Len(fixtures_rows) = 0 THEN expected_points_delta(player, 3, pid_minutes)
        ELSE total

aggregate_epdelta_for_fixtures(player, fixtures_rows) ==
    LET pid_minutes == minutes_proxy(player)
        each == [k \in 1..Len(fixtures_rows) |->
                   expected_points_delta(player, fixtures_rows[k].opponent_strength, pid_minutes)]
        total == SumSeq([k \in 1..Len(fixtures_rows) |-> k], each)
    IN  IF Len(fixtures_rows) > 1 THEN (total \div 10) * 11 ELSE total

----------------------------------------------------------------------------
(* The floats of the EP totals.  A non-negative double below 64 is held
   exactly as << H, M, L >>, standing for H + M / 2^30 + L / 2^60; every such
   double with a value of 2^-8 or more, and every sum or difference of two of
   them, is a multiple of 2^-60. *)

Limb == 1073741824
HalfLimb == 32768

F64Zero == << 0, 0, 0 >>

\* ep_by_player.get(i, 0.0) in hundredths
EpHundredths(ep_by_player, pid) == IF pid \in DOMAIN ep_by_player THEN ep_by_player[pid] ELSE 0

\* The largest power of two that is at most n (1 for n < 2)
RECURSIVE HighBit(_)
HighBit(n) == IF n < 2 THEN 1 ELSE 2 * HighBit(n \div 2)

\* The spacing of the doubles around H + M / 2^30, in units of 2^-60
ulp_units(H, M) ==
    IF H >= 1 THEN 256 * HighBit(H) ELSE Max2(1, HighBit(M) \div 4194304)

\* Round to nearest, ties to even, to 53 significant bits; sticky says that
\* the exact value lies strictly above H + M / 2^30 + L / 2^60
f64_round(H, M, L, sticky) ==
    LET U    == ulp_units(H, M)
        low  == L % U
        up   == U > 1 /\ (\/ 2 * low > U
                          \/ 2 * low = U /\ (sticky \/ (L \div U) % 2 = 1))
        L1   == L - low + (IF up THEN U ELSE 0)
        M1   == M + (L1 \div Limb)
    IN  << H + (M1 \div Limb), M1 % Limb, L1 % Limb >>

\* Mutant of f64_add: the exact sum, never rounded
f64_add_Exact(a, b) ==
    LET l == a[3] + b[3]
        m == a[2] + b[2] + (l \div Limb)
    IN  << a[1] + b[1] + (m \div Limb), m % Limb, l % Limb >>

\* a + b of two doubles
f64_add(a, b) ==
    LET l == a[3] + b[3]
        m == a[2] + b[2] + (l \div Limb)
    IN  f64_round(a[1] + b[1] + (m \div Limb), m % Limb, l % Limb, FALSE)

f64_less(a, b) ==
    \/ a[1] < b[1]
    \/ a[1] = b[1] /\ a[2] < b[2]
    \/ a[1] = b[1] /\ a[2] = b[2] /\ a[3] < b[3]

\* a - b of two doubles: sign and magnitude
f64_sub(a, b) ==
    LET hi == IF f64_less(a, b) THEN b ELSE a
        lo == IF f64_less(a, b) THEN a ELSE b
        l  == hi[3] - lo[3]
        bl == IF l < 0 THEN 1 ELSE 0
        m  == hi[2] - lo[2] - bl
        bm == IF m < 0 THEN 1 ELSE 0
    IN  [negative |-> f64_less(a, b),
         magnitude |-> f64_round(hi[1] - lo[1] - bm, m + bm * Limb, l + bl * Limb, FALSE)]

\* The double nearest to h / 100, which is what round(x, 2) returns for a
\* value that rounds to h hundredths
f64_of_hundredths(h) ==
    LET step(r) == [q |-> (r * HalfLimb) \div 100, r |-> (r * HalfLimb) % 100]
        s1 == step(h % 100)
        s2 == step(s1.r)
        s3 == step(s2.r)
        s4 == step(s3.r)
    IN  f64_round(h \div 100, s1.q * HalfLimb + s2.q, s3.q * HalfLimb + s4.q, s4.r > 0)

\* The doubles of the 2dp values an EP can take here: at most 1.1 times the
\* 5.0 of one fixture
MaxEpHundredths == 550
F64OfHundredths == [h \in 0..MaxEpHundredths |-> f64_of_hundredths(h)]

\* sum(ep_by_player.get(i, 0.0) for i in ids): left to right, one rounding
\* per addition
RECURSIVE f64_sum(_, _, _)
f64_sum(ids, ep_by_player, acc) ==
    IF ids = << >> THEN acc
    ELSE f64_sum(Tail(ids), ep_by_player,
                 f64_add(acc, F64OfHundredths[EpHundredths(ep_by_player, Head(ids))]))

----------------------------------------------------------------------------
(* Squad selector *)

\* by_pos[pos]: the squad members of one position, best EP first
by_pos(ids, ep_by_player, positions, pos) ==
    SortDesc(SelectSeq(ids, LAMBDA pid : positions[pid] = pos), ep_by_player)

\* step B of choose_starting_xi: the first MIN_BY_POS[pos] of each outfield pool
RECURSIVE fill_minima(_, _, _, _, _)
fill_minima(poss, ids, ep_by_player, positions, st) ==
    IF poss = <<>> THEN st
    ELSE LET pos  == Head(poss)
             need == MIN_BY_POS[pos]
             pool == SelectSeq(by_pos(ids, ep_by_player, positions, pos),
                               LAMBDA pid : ~InSeq(pid, st.selected))
         IN  fill_minima(Tail(poss), ids, ep_by_player, positions,
                 [selected |-> st.selected \o Take(pool, need),
                  counts   |-> [st.counts EXCEPT ![pos] = @ + Min2(Len(pool), need)]])

\* step C of choose_starting_xi: fill to 11 respecting MAX_BY_POS
RECURSIVE fill_remaining(_, _, _)
fill_remaining(candidates, positions, st) ==
    IF candidates = <<>> \/ Len(st.selected) >= 11 THEN st
    ELSE LET pid == Head(candidates)
             pos == positions[pid]
         IN  IF st.counts[pos] < MAX_BY_POS[pos]
             THEN fill_remaining(Tail(candidates), positions,
                      [selected |-> Append(st.selected, pid),
                       counts   |-> [st.counts EXCEPT ![pos] = @ + 1]])
             ELSE fill_remaining(Tail(candidates), positions, st)

\* choose_starting_xi(ep_by_player, positions); ids is the key order of
\* ep_by_player (the order of the picks)
choose_starting_xi(ids, ep_by_player, positions) ==
    LET gks == by_pos(ids, ep_by_player, positions, "GK")
        stA == [selected |-> IF gks # <<>> THEN <<gks[1]>> ELSE <<>>,
                counts   |-> [pos \in Positions |->
                                IF pos = "GK" /\ gks # <<>> THEN 1 ELSE 0]]
        stB == fill_minima(<<"DEF", "MID", "FWD">>, ids, ep_by_player, positions, stA)
        pool(pos) == SelectSeq(by_pos(ids, ep_by_player, positions, pos),
                               LAMBDA pid : ~InSeq(pid, stB.selected))
        candidates == SortDesc(pool("DEF") \o pool("MID") \o pool("FWD"), ep_by_player)
        stC == fill_remaining(candidates, positions, stB)
        selected == stC.selected
        bench == SelectSeq(ids, LAMBDA pid : ~InSeq(pid, selected))
        outfield_bench == SortAsc(SelectSeq(bench, LAMBDA pid : positions[pid] # "GK"),
                                  ep_by_player)
        gk_bench == SelectSeq(bench, LAMBDA pid : positions[pid] = "GK")
    IN  [selected |-> selected, bench |-> Take(outfield_bench, 3) \o Take(gk_bench, 1)]

----------------------------------------------------------------------------
(* Captaincy and chips *)

\* ownership_index(elements): element id -> selected_by_percent
ownership_index(elems) == Dict([pid \in 1..Len(elems) |-> elems[pid].selected_by_percent])

\* The score of recommend_captain_from_ids is a product of doubles: the
\* operands (base, own, mode) whose float product lands one ulp above, or
\* one ulp below, the double nearest to the exact product, for the values
\* of base (hundredths) and own the specifications use
ScoreRoundedUp ==
    { << 79, 10, "safe" >>, << 79, 90, "safe" >>, << 80, 10, "safe" >>, << 80, 50, "safe" >>,
      << 80, 90, "safe" >>, << 158, 10, "safe" >>, << 158, 90, "safe" >>,
      << 219, 10, "safe" >>, << 316, 10, "safe" >>, << 316, 90, "safe" >>,
      << 329, 50, "safe" >>, << 329, 90, "safe" >>,
      << 79, 0, "differential" >>, << 80, 0, "differential" >>,
      << 158, 0, "differential" >>, << 316, 0, "differential" >>,
      << 329, 0, "differential" >> }
ScoreRoundedDown ==
    { << 120, 50, "safe" >>, << 439, 50, "safe" >>, << 439, 90, "safe" >>,
      << 79, 10, "differential" >>, << 80, 10, "differential" >>,
      << 158, 10, "differential" >>, << 316, 10, "differential" >>,
      << 439, 0, "differential" >>, << 439, 10, "differential" >> }
score_ulps(base, own, mode_) ==
    IF << base, own, mode_ >> \in ScoreRoundedUp THEN 1
    ELSE IF << base, own, mode_ >> \in ScoreRoundedDown THEN -1 ELSE 0

\* The (pid, score, base) rows of recommend_captain_from_ids, in the order of
\* starting_ids.  safe: base * (1 + min(own, 80)/100), kept times 100;
\* otherwise base * (1 + max(0, 20 - min(own, 20))/25), kept times 25.
\* Exact scores that differ are at least one such unit apart, so the score
\* is held as 4 * exact + score_ulps, which orders as the doubles do.
\* Mutant of captain_scored: goalkeepers are scored too
captain_scored_WithGK(starting_ids, per_player_ep, ownership_idx, positions, mode_) ==
    List([k \in 1..Len(starting_ids) |->
           LET pid  == starting_ids[k]
               base == per_player_ep[pid]
           IN  [pid   |-> pid,
                score |-> 4 * (IF mode_ = "safe"
                               THEN base * (100 + Min2(ownership_idx[pid], 80))
                               ELSE base * (25 + Max2(0, 20 - Min2(ownership_idx[pid], 20))))
                          + score_ulps(base, ownership_idx[pid], mode_),
                base  |-> base]])

captain_scored(starting_ids, per_player_ep, ownership_idx, positions, mode_) ==
    LET starters == SelectSeq(starting_ids, LAMBDA pid : positions[pid] # "GK")
    IN  List([k \in 1..Len(starters) |->
           LET pid  == starters[k]
               own  == ownership_idx[pid]
               base == per_player_ep[pid]
           IN  [pid   |-> pid,
                score |-> 4 * (IF mode_ = "safe"
                               THEN base * (100 + Min2(own, 80))
                               ELSE base * (25 + Max2(0, 20 - Min2(own, 20))))
                          + score_ulps(base, own, mode_),
                base  |-> base]])

\* The low-confidence floor on the raw EP of the top-scored candidate (0.8)
LowConfidenceFloor == 80

\* Mutant of recommend_captain_from_ids: no low-confidence override
recommend_captain_from_ids_NoFloor(starting_ids, per_player_ep, ownership_idx, positions, mode_) ==
    LET rows   == captain_scored(starting_ids, per_player_ep, ownership_idx, positions, mode_)
        scored == SortDesc(rows, Dict([r \in ToSet(rows) |-> r.score]))
    IN  IF rows = <<>> THEN [captain |-> 0, vice |-> 0]
        ELSE [captain |-> scored[1].pid,
              vice    |-> IF Len(scored) < 2 THEN 0 ELSE scored[2].pid]

recommend_captain_from_ids(starting_ids, per_player_ep, ownership_idx, positions, mode_) ==
    LET rows   == captain_scored(starting_ids, per_player_ep, ownership_idx, positions, mode_)
        scored == SortDesc(rows, Dict([r \in ToSet(rows) |-> r.score]))
        top    == scored[1]
        byBase == CHOOSE k \in 1..Len(scored) :
                      /\ \A j \in 1..Len(scored) : scored[j].base <= scored[k].base
                      /\ \A j \in 1..(k - 1) : scored[j].base < scored[k].base
        top_pid == IF top.base < LowConfidenceFloor THEN scored[byBase].pid ELSE top.pid
        others  == SelectSeq(scored, LAMBDA r : r.pid # top_pid)
    IN  IF rows = <<>> THEN [captain |-> 0, vice |-> 0]
        ELSE [captain |-> top_pid,
              vice    |-> IF others = <<>> THEN 0 ELSE others[1].pid]

\* per_player_ep.get(pid, 0.0)
EpGet(per_player_ep, pid) == IF pid \in DOMAIN per_player_ep THEN per_player_ep[pid] ELSE 0

evaluate_chips(per_player_ep, captain_id, bench_ids) ==
    [bench_boost_gain    |-> SumSeq(bench_ids, per_player_ep),
     triple_captain_gain |-> EpGet(per_player_ep, captain_id)]

\* Chip thresholds of plan_gameweek, in hundredths (12.0 and 4.0)
bench_boost_threshold == 1200
triple_captain_threshold == 400

\* Mutant of chip_action: the triple captain is tried before the bench boost
chip_action_TCFirst(chip_eval) ==
    LET chip_type == IF chip_eval.triple_captain_gain >= triple_captain_threshold THEN "TC"
                     ELSE IF chip_eval.bench_boost_gain >= bench_boost_threshold THEN "BB"
                     ELSE "NONE"
    IN  IF chip_type = "NONE"
        THEN [type |-> "chip", action_group |-> "chip", priority |-> 90,
              chip |-> chip_type, reason |-> "Chip evaluation",
              details |-> chip_eval, reason_code |-> "below_threshold"]
        ELSE [type |-> "chip", action_group |-> "chip", priority |-> 90,
              chip |-> chip_type, reason |-> "Chip evaluation",
              details |-> chip_eval]

\* The chip action of plan_gameweek, after the pruning of None values: the
\* reason_code key exists only when no chip is recommended
chip_action(chip_eval) ==
    LET chip_type == IF chip_eval.bench_boost_gain >= bench_boost_threshold THEN "BB"
                     ELSE IF chip_eval.triple_captain_gain >= triple_captain_threshold THEN "TC"
                     ELSE "NONE"
        base == [type |-> "chip", action_group |-> "chip", priority |-> 90,
                 chip |-> chip_type, reason |-> "Chip evaluation",
                 details |-> chip_eval]
    IN  IF chip_type = "NONE"
        THEN [type |-> "chip", action_group |-> "chip", priority |-> 90,
              chip |-> chip_type, reason |-> "Chip evaluation",
              details |-> chip_eval, reason_code |-> "below_threshold"]
        ELSE base

----------------------------------------------------------------------------
(* Gameweek planner *)

\* team_idx.get(t, {}).get("strength", 3) or 3
team_strength_or3(teams, t) ==
    IF t \in DOMAIN teams /\ teams[t].strength # 0 THEN teams[t].strength ELSE 3

\* fixtures_by_team.get(team_id, []): the rows of one team, in fixture order
RECURSIVE fixtures_by_team(_, _, _)
fixtures_by_team(fixtures_gw, teams, team_id) ==
    IF fixtures_gw = <<>> THEN <<>>
    ELSE LET fx == Head(fixtures_gw)
             home == IF fx.team_h = team_id
                     THEN << [was_home |-> TRUE, opponent_team |-> fx.team_a,
                              opponent_strength |-> team_strength_or3(teams, fx.team_a)] >>
                     ELSE <<>>
             away == IF fx.team_a = team_id
                     THEN << [was_home |-> FALSE, opponent_team |-> fx.team_h,
                              opponent_strength |-> team_strength_or3(teams, fx.team_h)] >>
                     ELSE <<>>
         IN  home \o away \o fixtures_by_team(Tail(fixtures_gw), teams, team_id)

\* The EP gain a swap needs to be proposed (0.20)
SwapMinGain == 20

\* Mutant of coerce_current: keeps the first-listed goalkeeper whatever its EP
coerce_current_KeepFirst(start0, bench0, ep_by_player, positions) ==
    LET current_gks == SelectSeq(start0, LAMBDA pid : positions[pid] = "GK")
        demoted == Tail(current_gks)
        start1  == SelectSeq(start0, LAMBDA pid : ~InSeq(pid, demoted))
        bench1  == bench0 \o demoted
        outfield_bench == SortDesc(SelectSeq(bench1, LAMBDA pid : positions[pid] # "GK"),
                                   ep_by_player)
        promotable == SelectSeq(outfield_bench, LAMBDA pid : ~InSeq(pid, start1))
    IN  IF Len(current_gks) > 1
        THEN IF promotable # <<>> /\ Len(start1) < 11
             THEN [start |-> Append(start1, promotable[1]),
                   bench |-> RemoveFirst(bench1, promotable[1])]
             ELSE [start |-> start1, bench |-> bench1]
        ELSE [start |-> start0, bench |-> bench0]

\* The repair of a current XI that holds more than one goalkeeper
coerce_current(start0, bench0, ep_by_player, positions) ==
    LET current_gks == SortDesc(SelectSeq(start0, LAMBDA pid : positions[pid] = "GK"),
                                ep_by_player)
        demoted == Tail(current_gks)
        start1  == SelectSeq(start0, LAMBDA pid : ~InSeq(pid, demoted))
        bench1  == bench0 \o demoted
        outfield_bench == SortDesc(SelectSeq(bench1, LAMBDA pid : positions[pid] # "GK"),
                                   ep_by_player)
        promotable == SelectSeq(outfield_bench, LAMBDA pid : ~InSeq(pid, start1))
    IN  IF Len(current_gks) > 1
        THEN IF promotable # <<>> /\ Len(start1) < 11
             THEN [start |-> Append(start1, promotable[1]),
                   bench |-> RemoveFirst(bench1, promotable[1])]
             ELSE [start |-> start1, bench |-> bench1]
        ELSE [start |-> start0, bench |-> bench0]

\* Mutant of is_legal_start: counts the starters only
is_legal_start_ElevenOnly(starters, positions) == Len(starters) = 11

is_legal_start(starters, positions) ==
    LET g == Len(SelectSeq(starters, LAMBDA pid : positions[pid] = "GK"))
        d == Len(SelectSeq(starters, LAMBDA pid : positions[pid] = "DEF"))
        m == Len(SelectSeq(starters, LAMBDA pid : positions[pid] = "MID"))
        f == Len(SelectSeq(starters, LAMBDA pid : positions[pid] = "FWD"))
    IN  /\ Len(starters) = 11
        /\ g = 1
        /\ ~(d < MIN_BY_POS["DEF"] \/ m < MIN_BY_POS["MID"] \/ f < MIN_BY_POS["FWD"])
        /\ ~(d > MAX_BY_POS["DEF"] \/ m > MAX_BY_POS["MID"] \/ f > MAX_BY_POS["FWD"])

\* pairs: every (in, out) with delta >= 0.20, outer loop over start_in
RECURSIVE swap_pairs(_, _, _)
swap_pairs(start_in, bench_out, ep_by_player) ==
    IF start_in = <<>> THEN <<>>
    ELSE LET i == Head(start_in)
             row == List([k \in 1..Len(bench_out) |->
                       [in_player |-> i, out_player |-> bench_out[k],
                        delta |-> ep_by_player[i] - ep_by_player[bench_out[k]]]])
         IN  SelectSeq(row, LAMBDA t : t.delta >= SwapMinGain)
             \o swap_pairs(Tail(start_in), bench_out, ep_by_player)

\* Greedy legality-preserving selection of swaps
RECURSIVE choose_pairs(_, _, _, _, _, _)
choose_pairs(pairs, chosen, used_in, used_out, trial_start, positions) ==
    IF pairs = <<>> THEN chosen
    ELSE LET t == Head(pairs)
             nxt == Append(SelectSeq(trial_start, LAMBDA pid : pid # t.out_player), t.in_player)
         IN  IF t.in_player \in used_in \/ t.out_player \in used_out
             THEN choose_pairs(Tail(pairs), chosen, used_in, used_out, trial_start, positions)
             ELSE IF is_legal_start(nxt, positions)
             THEN choose_pairs(Tail(pairs), Append(chosen, t), used_in \cup {t.in_player},
                               used_out \cup {t.out_player}, nxt, positions)
             ELSE choose_pairs(Tail(pairs), chosen, used_in, used_out, trial_start, positions)

\* The integer-valued keys whose value may be None
NullableKeys == {"old_player", "ep_old", "opponent_team_id", "opponent_strength", "opp_strength"}

\* Mutant of prune_none: keeps every key
prune_none_KeepAll(d) == d

\* {k: v for k, v in d.items() if v is not None}
prune_none(d) ==
    Dict([k \in { j \in DOMAIN d : ~(j \in NullableKeys /\ d[j] = Null) } |-> d[k]])

\* in_fixture / out_fixture of a swap before pruning: the first fixture row of
\* the club, or None throughout when the club has no fixture (was_home, a
\* boolean, is then left out here rather than held as None)
fixture_ctx(rows) ==
    IF rows = <<>>
    THEN [opponent_team_id |-> Null, opponent_strength |-> Null]
    ELSE [opponent_team_id |-> rows[1].opponent_team,
          opponent_strength |-> rows[1].opponent_strength,
          was_home |-> rows[1].was_home]

\* factors of a swap before pruning
swap_factors(rows, form) ==
    IF rows = <<>>
    THEN [opp_strength |-> Null, form |-> form]
    ELSE [home |-> rows[1].was_home, opp_strength |-> rows[1].opponent_strength,
          form |-> form]

\* Mutant of swap_actions: prio is never incremented
swap_actions_FlatPriority(chosen_pairs, ep_by_player, gw_, elems, fixtures_gw, teams) ==
  List(
    [k \in 1..Len(chosen_pairs) |->
       LET i == chosen_pairs[k].in_player
           o == chosen_pairs[k].out_player
           in_rows  == fixtures_by_team(fixtures_gw, teams, elems[i].team)
           out_rows == fixtures_by_team(fixtures_gw, teams, elems[o].team)
       IN  [type |-> "swap", action_group |-> "lineup", priority |-> 10,
            bundle_id |-> <<"lineup", gw_, 1>>,
            in_player |-> i,
            out_player |-> o,
            ep_in |-> ep_by_player[i],
            ep_out |-> ep_by_player[o],
            delta_ep |-> chosen_pairs[k].delta,
            reason_code |-> "higher_ep",
            factors |-> prune_none(swap_factors(in_rows, elems[i].form)),
            reason |-> "EP_diff",
            in_fixture |-> prune_none(fixture_ctx(in_rows)),
            out_fixture |-> prune_none(fixture_ctx(out_rows))]])

\* The swap actions, priorities 10, 11, ... in the order of chosen_pairs
swap_actions(chosen_pairs, ep_by_player, gw_, elems, fixtures_gw, teams) ==
  List(
    [k \in 1..Len(chosen_pairs) |->
       LET i == chosen_pairs[k].in_player
           o == chosen_pairs[k].out_player
           in_rows  == fixtures_by_team(fixtures_gw, teams, elems[i].team)
           out_rows == fixtures_by_team(fixtures_gw, teams, elems[o].team)
       IN  [type |-> "swap", action_group |-> "lineup", priority |-> 10 + (k - 1),
            bundle_id |-> <<"lineup", gw_, 1>>,
            in_player |-> i,
            out_player |-> o,
            ep_in |-> ep_by_player[i],
            ep_out |-> ep_by_player[o],
            delta_ep |-> chosen_pairs[k].delta,
            reason_code |-> "higher_ep",
            factors |-> prune_none(swap_factors(in_rows, elems[i].form)),
            reason |-> "EP_diff",
            in_fixture |-> prune_none(fixture_ctx(in_rows)),
            out_fixture |-> prune_none(fixture_ctx(out_rows))]])

\* next((p.element for p in picks if p[flag]), None)
first_flagged(picks, flag) ==
    LET hits == SelectSeq(picks, LAMBDA p : p[flag])
    IN  IF hits = <<>> THEN Null ELSE hits[1].element

\* captaincy_actions that does not look at the manager's current choice
captaincy_actions_Always(captain, vice, curr_cap, curr_vc, ep_by_player, mode_) ==
    << [type |-> "set_captain", action_group |-> "captaincy", priority |-> 50,
        player |-> captain, reason_code |-> "highest_captain_score",
        reason |-> "Highest captain score", captain_mode |-> mode_],
       [type |-> "set_vice", action_group |-> "captaincy", priority |-> 60,
        player |-> vice, reason_code |-> "second_best_captain",
        reason |-> "Second-best captain"] >>

captaincy_actions(captain, vice, curr_cap, curr_vc, ep_by_player, mode_) ==
    (IF captain # 0 /\ captain # curr_cap
     THEN << [type |-> "set_captain", action_group |-> "captaincy", priority |-> 50,
              player |-> captain,
              old_player |-> curr_cap,
              reason_code |-> "highest_captain_score",
              reason |-> "Highest captain score",
              ep_new |-> EpGet(ep_by_player, captain),
              ep_old |-> IF curr_cap # Null THEN EpGet(ep_by_player, curr_cap) ELSE Null,
              delta_ep |-> EpGet(ep_by_player, captain)
                           - (IF curr_cap # Null THEN EpGet(ep_by_player, curr_cap) ELSE 0),
              captain_mode |-> mode_] >>
     ELSE <<>>)
    \o
    (IF vice # 0 /\ vice # curr_vc
     THEN << [type |-> "set_vice", action_group |-> "captaincy", priority |-> 60,
              player |-> vice,
              old_player |-> curr_vc,
              reason_code |-> "second_best_captain",
              reason |-> "Second-best captain"] >>
     ELSE <<>>)

\* pruned_actions: every action without its None-valued keys
pruned_actions(actions) == List([k \in 1..Len(actions) |-> prune_none(actions[k])])

plan_gameweek(picks, elems, teams, fixtures_gw, gw_, ownership_idx, mode) ==
    LET ids == List([k \in 1..Len(picks) |-> picks[k].element])
        positions == Dict([eid \in ToSet(ids) |-> position_code(elems[eid].element_type)])
        ep_by_player == Dict([eid \in ToSet(ids) |->
                           Round2(aggregate_epdelta_for_fixtures(elems[eid],
                                      fixtures_by_team(fixtures_gw, teams, elems[eid].team)))])
        starts == SelectSeq(picks, LAMBDA p : p.multiplier > 0)
        benchs == SelectSeq(picks, LAMBDA p : p.multiplier <= 0)
        cur == coerce_current(List([k \in 1..Len(starts) |-> starts[k].element]),
                              List([k \in 1..Len(benchs) |-> benchs[k].element]),
                              ep_by_player, positions)
        current_start == cur.start
        current_bench == cur.bench
        xi == choose_starting_xi(ids, ep_by_player, positions)
        optimal_start == xi.selected
        optimal_bench == xi.bench
        ep_total_current == f64_sum(current_start, ep_by_player, F64Zero)
        ep_total_optimal == f64_sum(optimal_start, ep_by_player, F64Zero)
        cv == recommend_captain_from_ids(optimal_start, ep_by_player, ownership_idx,
                                         positions, mode)
        chip_eval == evaluate_chips(ep_by_player, cv.captain, optimal_bench)
        curr_cap == first_flagged(picks, "is_captain")
        curr_vc  == first_flagged(picks, "is_vice_captain")
        start_in  == SelectSeq(optimal_start, LAMBDA pid : ~InSeq(pid, current_start))
        bench_out == SelectSeq(current_start, LAMBDA pid : ~InSeq(pid, optimal_start))
        unsorted  == swap_pairs(start_in, bench_out, ep_by_player)
        pairs == SortDesc(unsorted, Dict([t \in ToSet(unsorted) |-> t.delta]))
        chosen_pairs == choose_pairs(pairs, <<>>, {}, {}, current_start, positions)
    IN  [formation_current |-> formation_str(current_start, positions),
         formation_optimal |-> formation_str(optimal_start, positions),
         current_start |-> current_start,
         current_bench |-> current_bench,
         optimal_start |-> optimal_start,
         optimal_bench |-> optimal_bench,
         captain |-> cv.captain,
         vice_captain |-> cv.vice,
         ep_total_current |-> ep_total_current,
         ep_total_optimal |-> ep_total_optimal,
         ep_gain_lineup |-> f64_sub(ep_total_optimal, ep_total_current),
         bench_ep_total |-> f64_sum(optimal_bench, ep_by_player, F64Zero),
         chip_eval |-> chip_eval,
         per_player_ep |-> ep_by_player,
         actions |-> pruned_actions(
                         swap_actions(chosen_pairs, ep_by_player, gw_, elems, fixtures_gw, teams)
                         \o captaincy_actions(cv.captain, cv.vice, curr_cap, curr_vc,
                                              ep_by_player, mode)
                         \o << chip_action(chip_eval) >>)]

----------------------------------------------------------------------------
(* Fixture linker and transfer advisor *)

\* link_fixtures_for_manager: each pick with its player and the first fixture
\* of the player's team in gameweek gw_
link_fixtures_for_manager(gw_, picks, fixtures, elems, teams) ==
    LET gw_fixtures == SelectSeq(fixtures, LAMBDA f : f.event = gw_)
        row(pick) ==
            LET player  == elems[pick.element]
                team_id == player.team
                hits    == SelectSeq(gw_fixtures,
                                     LAMBDA f : f.team_h = team_id \/ f.team_a = team_id)
                was_home == hits # <<>> /\ hits[1].team_h = team_id
                opponent_team == IF hits = <<>> THEN Null
                                 ELSE IF was_home THEN hits[1].team_a ELSE hits[1].team_h
                opponent_strength == IF opponent_team \in DOMAIN teams
                                     THEN teams[opponent_team].strength ELSE Null
            IN  [element |-> pick.element, multiplier |-> pick.multiplier,
                 is_captain |-> pick.is_captain, is_vice_captain |-> pick.is_vice_captain,
                 player |-> player,
                 fixture_row |-> [was_home |-> was_home, opponent_team |-> opponent_team,
                                  opponent_strength |-> opponent_strength]]
    IN  List([k \in 1..Len(picks) |-> row(picks[k])])

\* player_meta(element_id)
player_meta(elems, element_id) ==
    [now_cost |-> elems[element_id].now_cost,
     element_type |-> elems[element_id].element_type,
     team |-> elems[element_id].team]

\* int(fx.get("opponent_strength") or 3)
strength_or3(fx) ==
    IF fx.opponent_strength = Null \/ fx.opponent_strength = 0 THEN 3 ELSE fx.opponent_strength

\* Mutant of current_scored: the benched picks are scored too
current_scored_WithBench(pick_rows) ==
    List([k \in 1..Len(pick_rows) |->
            [element |-> pick_rows[k].element,
             epd |-> expected_points_delta(pick_rows[k].player,
                                           strength_or3(pick_rows[k].fixture_row),
                                           minutes_proxy(pick_rows[k].player))]])

\* current_scored: (element, EP) of every starter, unrounded, in pick order
current_scored(pick_rows) ==
    LET rows == SelectSeq(pick_rows, LAMBDA r : r.multiplier > 0)
    IN  List([k \in 1..Len(rows) |->
                [element |-> rows[k].element,
                 epd |-> expected_points_delta(rows[k].player, strength_or3(rows[k].fixture_row),
                                               minutes_proxy(rows[k].player))]])

\* to_replace: the three starters of lowest EP
to_replace(scored) ==
    LET sorted == SortAsc(scored, Dict([r \in ToSet(scored) |-> r.epd]))
        first3 == Take(sorted, 3)
    IN  List([k \in 1..Len(first3) |-> first3[k].element])

\* The opponent strength assumed for every transfer candidate
neutral_opp == 3

\* candidate_scores: (pid, EP) of every element outside the squad the call
\* started with, in the order of elements
candidate_scores(elems, squad_ids) ==
    LET ids == SelectSeq(List([k \in 1..Len(elems) |-> elems[k].id]),
                         LAMBDA pid : pid \notin squad_ids)
    IN  List([k \in 1..Len(ids) |->
                [pid |-> ids[k],
                 epd |-> expected_points_delta(elems[ids[k]], neutral_opp,
                                               minutes_proxy(elems[ids[k]]))]])

\* The locals of suggest_transfers when its loop starts
transfers_start(pick_rows, elems, bank_) ==
    LET squad_ids == { pick_rows[k].element : k \in 1..Len(pick_rows) }
        team_ids  == { elems[k].team : k \in 1..Len(elems) }
        scored    == current_scored(pick_rows)
    IN  [current_scored   |-> scored,
         to_replace       |-> to_replace(scored),
         candidate_scores |-> candidate_scores(elems, squad_ids),
         squad_ids   |-> squad_ids,
         team_counts |-> Dict([tm \in team_ids |->
                                Cardinality({ pid \in squad_ids : elems[pid].team = tm })]),
         bank        |-> bank_,
         suggestions |-> << >>]

\* legal_candidates without the budget test
legal_candidates_NoBudget(st, out_id, out_epd, elems, allowance) ==
    LET out_meta == player_meta(elems, out_id)
        legal(c) ==
            LET in_meta == player_meta(elems, c.pid)
            IN  /\ position_code(in_meta.element_type) = position_code(out_meta.element_type)
                /\ ~(in_meta.team # out_meta.team /\ st.team_counts[in_meta.team] >= 3)
                /\ ~(c.epd <= out_epd)
    IN  SelectSeq(st.candidate_scores, legal)

\* The candidates that pass the position, team cap, budget and upgrade tests
\* for one sell slot
legal_candidates(st, out_id, out_epd, elems, allowance) ==
    LET out_meta == player_meta(elems, out_id)
        legal(c) ==
            LET in_meta == player_meta(elems, c.pid)
            IN  /\ position_code(in_meta.element_type) = position_code(out_meta.element_type)
                /\ ~(in_meta.team # out_meta.team /\ st.team_counts[in_meta.team] >= 3)
                /\ ~((in_meta.now_cost - out_meta.now_cost) > (st.bank + allowance))
                /\ ~(c.epd <= out_epd)
    IN  SelectSeq(st.candidate_scores, legal)

\* One pass of the loop over to_replace.  After the candidate loop the name
\* in_meta still holds the meta of the LAST candidate of candidate_scores,
\* whichever candidate was chosen; the team count and the bank are updated
\* from it.
sell_slot(st, out_id, elems, allowance) ==
    LET out_meta == player_meta(elems, out_id)
        out_epd  == (CHOOSE r \in ToSet(st.current_scored) : r.element = out_id).epd
        legal    == legal_candidates(st, out_id, out_epd, elems, allowance)
        best     == SortDesc(legal, Dict([c \in ToSet(legal) |-> c.epd]))[1]
        in_meta  == player_meta(elems, st.candidate_scores[Len(st.candidate_scores)].pid)
        counts1  == [st.team_counts EXCEPT ![out_meta.team] = Max2(0, @ - 1)]
        counts2  == [counts1 EXCEPT ![in_meta.team] = @ + 1]
    IN  IF legal = << >> THEN st
        ELSE [st EXCEPT
                !.squad_ids   = (st.squad_ids \ {out_id}) \cup {best.pid},
                !.team_counts = counts2,
                !.bank        = st.bank - (in_meta.now_cost - out_meta.now_cost),
                !.suggestions = Append(st.suggestions,
                                       [out |-> out_id, in |-> best.pid,
                                        epdelta_out |-> out_epd, epdelta_in |-> best.epd])]

RECURSIVE sell_all(_, _, _, _)
sell_all(st, outs, elems, allowance) ==
    IF outs = << >> THEN st
    ELSE sell_all(sell_slot(st, Head(outs), elems, allowance), Tail(outs), elems, allowance)

suggest_transfers(pick_rows, elems, bank_, bank_allowance) ==
    LET st0 == transfers_start(pick_rows, elems, bank_)
    IN  sell_all(st0, st0.to_replace, elems, bank_allowance).suggestions

----------------------------------------------------------------------------
(* What the three functions leave of the payload objects they are handed *)

\* link_fixtures_for_manager indexes elements, teams and fixtures into
\* dicts and lists of its own and emits a new dict {**pick, ...} per pick
link_fixtures_leaves(picks, elems) == [picks |-> picks, elements |-> elems]

\* Mutant of plan_gameweek_leaves: the coercion benches the second starting
\* goalkeeper in the picks themselves
plan_gameweek_leaves_InPlace(picks, elems) ==
    [picks |-> [k \in 1..Len(picks) |->
                  IF /\ picks[k].multiplier > 0
                     /\ elems[picks[k].element].element_type = 1
                     /\ \E j \in 1..(k - 1) : /\ picks[j].multiplier > 0
                                               /\ elems[picks[j].element].element_type = 1
                  THEN [picks[k] EXCEPT !.multiplier = 0]
                  ELSE picks[k]],
     elements |-> elems]

\* plan_gameweek builds current_start and current_bench as new lists of ids
\* and sorts, removes from and appends to those; positions, fixtures_by_team
\* and ep_by_player are dicts of its own
plan_gameweek_leaves(picks, elems) == [picks |-> picks, elements |-> elems]

\* suggest_transfers updates squad_ids, team_counts, bank and suggestions,
\* all locals built from the rows; the rows and elements are only read
suggest_transfers_leaves(pick_rows, elems) == [pick_rows |-> pick_rows, elements |-> elems]

----------------------------------------------------------------------------
(* The world the requests run in: bootstrap teams, fixtures, squads *)

\* bootstrap teams: id -> record; strength 1 (strongest) .. 5
Teams == [t \in 1..7 |-> [id |-> t, name |-> <<"club", t>>,
                          strength |-> IF t = 5 THEN 4 ELSE 5]]

\* The target gameweek of the request
TargetGW == 4

\* fixtures(): every team plays once in the target gameweek
Fixtures == << [event |-> TargetGW, team_h |-> 1, team_a |-> 2],
               [event |-> TargetGW, team_h |-> 3, team_a |-> 4],
               [event |-> TargetGW, team_h |-> 5, team_a |-> 6] >>

\* The squad: picks[k].element = k for k in 1..15
Squad == 1..15

\* Club of each squad member: three each from clubs 1-3, two each from 4-6.
\* Club 6 (the first goalkeeper and a defender) meets the only opponent of
\* strength 4, the others meet strength 5.
SquadTeam == << 6, 2, 6, 2, 3, 4, 5, 1, 2, 3, 1, 1, 3, 5, 4 >>

\* A picks payload lists the starters first (goalkeeper, defenders,
\* midfielders, forwards) and then the bench (goalkeeper, substitutes).
\* Layout(d, m, f, two_gk) is the element_type of each pick for a manager who
\* starts d-m-f; with two_gk the second goalkeeper is also marked as a
\* starter (the anomaly plan_gameweek repairs) and one more outfielder sits
\* on the bench.
LayoutTypes(d, m, f, two_gk) ==
    LET gk(n)  == [k \in 1..n |-> 1]
        def(n) == [k \in 1..n |-> 2]
        mid(n) == [k \in 1..n |-> 3]
        fwd(n) == [k \in 1..n |-> 4]
    IN  IF two_gk
        THEN gk(2) \o def(d) \o mid(m) \o fwd(f) \o def(5 - d) \o mid(5 - m) \o fwd(3 - f)
        ELSE gk(1) \o def(d) \o mid(m) \o fwd(f) \o gk(1) \o def(5 - d) \o mid(5 - m) \o fwd(3 - f)

Formations == { <<d, m, f>> \in (3..5) \X (2..5) \X (1..3) : TRUE }

Layouts ==
    { [types |-> LayoutTypes(x[1], x[2], x[3], FALSE), starters |-> 11] :
          x \in { y \in Formations : y[1] + y[2] + y[3] = 10 } }
    \cup
    { [types |-> LayoutTypes(x[1], x[2], x[3], TRUE), starters |-> 11] :
          x \in { y \in Formations : y[1] + y[2] + y[3] = 9 } }

\* (form, ict_index) in tenths; with 180 minutes they score 0.00, 3.16 and
\* 4.39 against a strength-5 opponent, 0.00, 2.37 and 3.29 against strength 4
Profiles == << [form |-> 0,   ict_index |-> 0],
               [form |-> 70,  ict_index |-> 150],
               [form |-> 100, ict_index |-> 200] >>

\* Bound: how many squad members differ from the squad's common profile
MaxVaried == 1

SmallSubsets(S, n) == { T \in SUBSET S : Cardinality(T) <= n }

\* Squad member -> profile index: one common profile, at most MaxVaried others
ProfileMaps ==
    UNION { UNION { { [pid \in Squad |-> IF pid \in T THEN g[pid] ELSE b] :
                        g \in [T -> 1..Len(Profiles)] } :
                    T \in SmallSubsets(Squad, MaxVaried) } :
            b \in 1..Len(Profiles) }

MakeElements(layout, pm) ==
    [pid \in Squad |->
       [id |-> pid, team |-> SquadTeam[pid], element_type |-> layout.types[pid],
        now_cost |-> 50, form |-> Profiles[pm[pid]].form,
        ict_index |-> Profiles[pm[pid]].ict_index, minutes |-> 180,
        selected_by_percent |-> 10]]

MakePicks(layout) ==
    [k \in Squad |->
       [element |-> k, multiplier |-> IF k <= layout.starters THEN 1 ELSE 0,
        is_captain |-> FALSE, is_vice_captain |-> FALSE]]

\* The captain and vice-captain the manager has flagged in the picks payload:
\* nobody, or picks 2 and 4 either way round
CaptainFlags == { << 0, 0 >>, << 2, 4 >>, << 4, 2 >> }

FlagPicks(pks, flags) ==
    [k \in 1..Len(pks) |->
       [pks[k] EXCEPT !.is_captain = (pks[k].element = flags[1]),
                      !.is_vice_captain = (pks[k].element = flags[2])]]

\* Transfer candidates are the elements 16..18 outside the squad.  Each is a
\* defender or a midfielder of club 5 (two in the squad) or club 3 (three in
\* the squad), costs 4.5 or 5.4 against the 5.0 of every squad member, and
\* scores 1.58 or 2.19 against the neutral opponent.
CandidateIds == << 16, 17, 18 >>
CandidateKinds ==
    [element_type : {2, 3}, team : {5, 3}, now_cost : {45, 54}, profile : {2, 3}]

MakeCandidates(kinds) ==
    [k \in 1..Len(CandidateIds) |->
       [id |-> CandidateIds[k], team |-> kinds[k].team,
        element_type |-> kinds[k].element_type, now_cost |-> kinds[k].now_cost,
        form |-> Profiles[kinds[k].profile].form,
        ict_index |-> Profiles[kinds[k].profile].ict_index, minutes |-> 180,
        selected_by_percent |-> 10]]

\* The squad of the transfer runs starts 4-4-2; defenders 3 and 5 score 0.00,
\* midfielder 6 (120 minutes) scores 2.16, everyone else 3.29 or more
TransferLayout == [types |-> LayoutTypes(4, 4, 2, FALSE), starters |-> 11]
TransferSquad ==
    LET pm == [pid \in Squad |-> IF pid \in {3, 5} THEN 1 ELSE IF pid = 6 THEN 2 ELSE 3]
    IN  [MakeElements(TransferLayout, pm) EXCEPT ![6].minutes = 120]

\* The squads of the transfer runs: that one, and the same with the benched
\* defender 13 scoring 0.00, as little as the weakest starters
TransferSquads ==
    { TransferSquad, [TransferSquad EXCEPT ![13].form = Profiles[1].form,
                                           ![13].ict_index = Profiles[1].ict_index] }

\* Bound: the largest bank (tenths of a currency unit) a call starts with
MaxBank == 5

\* allowance = 4 if allow_hit else 0
hit_allowance(allow_hit) == IF allow_hit THEN 4 ELSE 0

\* Bound: the gameweeks the upstream knows, 1..MaxGW
MaxGW == 4

\* What the upstream answers to a picks request for one gameweek
UpstreamAnswers == { "ok", "404", "502" }

\* The squads the endpoint is exercised with: four ways of fielding the
\* squad, every member on the same profile.  Where EPs tie the selector
\* prefers 5-4-1, so the 5-4-1 and two-goalkeeper 5-3-1 squads pass the
\* guardrail, 5-3-2 never does, and 4-5-1 does unless every EP is 0.
RouteLayouts ==
    { [types |-> LayoutTypes(5, 4, 1, FALSE), starters |-> 11],
      [types |-> LayoutTypes(4, 5, 1, FALSE), starters |-> 11],
      [types |-> LayoutTypes(5, 3, 2, FALSE), starters |-> 11],
      [types |-> LayoutTypes(5, 3, 1, TRUE),  starters |-> 11] }

\* The candidates the endpoint sees: two defenders and a midfielder
RouteCandidates ==
    MakeCandidates(<< [element_type |-> 2, team |-> 5, now_cost |-> 54, profile |-> 3],
                      [element_type |-> 2, team |-> 5, now_cost |-> 45, profile |-> 2],
                      [element_type |-> 3, team |-> 3, now_cost |-> 45, profile |-> 3] >>)

----------------------------------------------------------------------------
(* State *)

VARIABLES
    pc,             \* where the computation stands
    elements,       \* bootstrap elements, elements[id].id = id
    picks,          \* the manager's picks payload
    mode,           \* captain mode of the request
    plan,           \* the dict returned by plan_gameweek, or Null
    bank,           \* bank the transfer advisor is called with
    allowance,      \* bank_allowance the transfer advisor is called with
    xfer,           \* running squad_ids / team_counts / bank / suggestions, or Null
    slot,           \* index into to_replace of the next sell slot
    linked,         \* rows returned by link_fixtures_for_manager, << >> before the call
    gw,             \* target gameweek of the request
    expand,         \* expand flag of the request
    strategy,       \* picks_strategy of the request
    bootstrap_answer, \* answer of the upstream to the bootstrap and fixtures requests
    upstream,       \* gameweek -> answer of the upstream to a picks request
    live_events,    \* ids of the bootstrap events that are current or finished
    cur,            \* gameweek the picks search tries next
    fetched,        \* gameweeks picks were requested for, in request order
    picks_gw_used,  \* gameweek the picks came from, or Null
    status,         \* HTTP status of the response, 0 while the request runs
    response,       \* body of the success response, or Null
    ep_args,        \* argument lists of two expected_points_delta calls, << >> when idle
    ep_vals,        \* the values the two calls returned, << >> before they return
    cap_args,       \* arguments of a recommend_captain_from_ids call, << >> when idle
    cap_result,     \* the (captain, vice) the call returned, << >> before it returns
    payload0,       \* the cached payload as two sharing requests found it, << >> when idle
    req_pc,         \* request -> the call it makes next, << >> when idle
    req_out,        \* request -> what its calls returned so far, << >> when idle
    cache,          \* _CACHE: url -> the payload held for it, 0 where none is held
    fetches,        \* upstream requests made so far
    calls,          \* caller -> its _get call: pc, url, ticket, answer, result; << >> when idle
    client,         \* _CLIENT: the number of the shared client, 0 for None
    clients,        \* the clients made so far: number -> is_closed
    procs,          \* coroutine -> what it is doing with the client; << >> when idle
    last_got        \* what get_client returned last since a client was closed, 0 if nothing

plan_vars == << pc, elements, picks, mode, plan >>
xfer_vars == << bank, allowance, xfer, slot, linked >>
route_vars == << gw, expand, strategy, bootstrap_answer, upstream, live_events, cur, fetched,
                 picks_gw_used, status, response >>
ep_vars == << ep_args, ep_vals >>
cap_vars == << cap_args, cap_result >>
req_vars == << payload0, req_pc, req_out >>
cache_vars == << cache, fetches, calls >>
client_vars == << client, clients, procs, last_got >>
unit_vars == << ep_vars, cap_vars, req_vars, cache_vars, client_vars >>
vars == << plan_vars, xfer_vars, route_vars, unit_vars >>

fixtures_gw == SelectSeq(Fixtures, LAMBDA f : f.event = TargetGW)

\* The rows the route hands to the transfer advisor
PickRows == link_fixtures_for_manager(TargetGW, picks, Fixtures, elements, Teams)

\* No transfer call is running
XferIdle == bank = 0 /\ allowance = 0 /\ xfer = Null /\ slot = 0 /\ linked = << >>

\* No scoring call is under test
EpIdle == ep_args = << >> /\ ep_vals = << >>

\* No captain call is under test
CapIdle == cap_args = << >> /\ cap_result = << >>

\* No two requests share a payload
ReqIdle == payload0 = << >> /\ req_pc = << >> /\ req_out = << >>

\* No _get call is under test
CacheIdle == cache = << >> /\ fetches = 0 /\ calls = << >>

\* No client life cycle is under test
ClientIdle == client = 0 /\ clients = << >> /\ procs = << >> /\ last_got = 0
UnitIdle == EpIdle /\ CapIdle /\ ReqIdle /\ CacheIdle /\ ClientIdle

\* No request is running
RouteIdle ==
    /\ gw = TargetGW /\ expand = FALSE /\ strategy = "exact" /\ bootstrap_answer = "ok"
    /\ upstream = [g \in 1..MaxGW |-> "ok"]
    /\ live_events = {} /\ cur = Null /\ fetched = << >> /\ picks_gw_used = Null
    /\ status = 0 /\ response = Null

InitPlan ==
    /\ pc = "start"
    /\ \E layout \in Layouts, pm \in ProfileMaps, flags \in CaptainFlags :
          /\ elements = MakeElements(layout, pm)
          /\ picks = FlagPicks(MakePicks(layout), flags)
    /\ mode = "safe"
    /\ plan = Null
    /\ XferIdle
    /\ RouteIdle
    /\ UnitIdle

PlanGameweek ==
    /\ pc = "start"
    /\ plan' = plan_gameweek(picks, elements, Teams, fixtures_gw, TargetGW,
                             ownership_index(elements), mode)
    /\ pc' = "planned"
    /\ UNCHANGED << unit_vars, elements, picks, mode, xfer_vars, route_vars >>

NextPlan == PlanGameweek

SpecPlan == InitPlan /\ [][NextPlan]_vars

----------------------------------------------------------------------------
(* plan_gameweek for squads whose bench scores nothing (SpecGain) *)

\* The four bench picks get form 0.0 and ict_index 0.0
BenchToZero(pm) == [pid \in Squad |-> IF pid > 11 THEN 1 ELSE pm[pid]]

InitGain ==
    /\ pc = "start"
    /\ \E layout \in Layouts, pm \in ProfileMaps :
          /\ elements = MakeElements(layout, BenchToZero(pm))
          /\ picks = MakePicks(layout)
    /\ mode = "safe"
    /\ plan = Null
    /\ XferIdle
    /\ RouteIdle
    /\ UnitIdle

NextGain == PlanGameweek

SpecGain == InitGain /\ [][NextGain]_vars

----------------------------------------------------------------------------
(* A squad member whose club has no fixture in the target gameweek (SpecBlank) *)

\* A club of the bootstrap that no fixture of the target gameweek names
BlankTeam ==
    CHOOSE t \in DOMAIN Teams :
        \A k \in 1..Len(Fixtures) : Fixtures[k].team_h # t /\ Fixtures[k].team_a # t

\* The squad with one member moved to the club without a fixture
BlankElements(layout, b, blank) ==
    [MakeElements(layout, [pid \in Squad |-> b]) EXCEPT ![blank].team = BlankTeam]

InitBlank ==
    /\ pc = "link"
    /\ \E layout \in Layouts, b \in 1..Len(Profiles), blank \in Squad :
          /\ elements = BlankElements(layout, b, blank)
          /\ picks = MakePicks(layout)
    /\ mode = "safe"
    /\ plan = Null
    /\ XferIdle
    /\ RouteIdle
    /\ UnitIdle

\* The route links the picks to the gameweek's fixtures before it plans
LinkFixtures ==
    /\ pc = "link"
    /\ linked' = PickRows
    /\ pc' = "start"
    /\ UNCHANGED << unit_vars, elements, picks, mode, plan, bank, allowance, xfer, slot, route_vars >>

NextBlank == LinkFixtures \/ PlanGameweek

SpecBlank == InitBlank /\ [][NextBlank]_vars

----------------------------------------------------------------------------
(* expected_points_delta on two argument lists with the same minutes (SpecEP) *)

\* form in tenths: below the range, inside it, above it
EpForms == {0, 35, 70, 120}

\* ict_index in tenths
EpIcts == {0, 75, 150, 250}

\* opponent strength; 0 lies below the range the bootstrap uses
EpStrengths == {0, 1, 3, 5}

EpMinutes == {60, 120, 180}

EpArgs ==
    [player : [form : EpForms, ict_index : EpIcts],
     opponent_strength : EpStrengths,
     recent_minutes : EpMinutes]

InitEP ==
    /\ pc = "ep_call"
    /\ ep_args \in { a \in [1..2 -> EpArgs] : a[1].recent_minutes = a[2].recent_minutes }
    /\ ep_vals = << >>
    /\ CapIdle /\ ReqIdle /\ CacheIdle /\ ClientIdle
    /\ elements = << >>
    /\ picks = << >>
    /\ mode = "safe"
    /\ plan = Null
    /\ XferIdle
    /\ RouteIdle

ExpectedPointsDelta ==
    /\ pc = "ep_call"
    /\ ep_vals' = [k \in 1..2 |->
                     expected_points_delta(ep_args[k].player, ep_args[k].opponent_strength,
                                           ep_args[k].recent_minutes)]
    /\ pc' = "ep_returned"
    /\ UNCHANGED << ep_args, cap_vars, req_vars, cache_vars, client_vars, elements, picks, mode, plan, xfer_vars, route_vars >>

NextEP == ExpectedPointsDelta

SpecEP == InitEP /\ [][NextEP]_vars

----------------------------------------------------------------------------
(* recommend_captain_from_ids on its own (SpecCaptain) *)

\* The candidates: a goalkeeper and three outfielders; raw EPs in hundredths
\* around the 0.8 floor; ownerships below and above the caps of both modes
CapPositions == << "GK", "DEF", "MID", "FWD" >>
CapStartings == { << 1, 2, 3, 4 >>, << 4, 1, 3 >>, << 1, 2 >>, << 1 >> }
CapEps == { 0, 79, 80, 120 }
CapOwns == { 0, 10, 50, 90 }
CapModes == { "safe", "differential" }

InitCaptain ==
    /\ pc = "captain_call"
    /\ cap_args \in [starting_ids : CapStartings,
                     per_player_ep : { << 439 >> \o e : e \in [1..3 -> CapEps] },
                     ownership_idx : { << 90 >> \o o : o \in [1..3 -> CapOwns] },
                     mode : CapModes]
    /\ cap_result = << >>
    /\ EpIdle /\ ReqIdle /\ CacheIdle /\ ClientIdle
    /\ elements = << >>
    /\ picks = << >>
    /\ mode = "safe"
    /\ plan = Null
    /\ XferIdle
    /\ RouteIdle

RecommendCaptain ==
    /\ pc = "captain_call"
    /\ cap_result' = recommend_captain_from_ids(cap_args.starting_ids, cap_args.per_player_ep,
                                                cap_args.ownership_idx, CapPositions,
                                                cap_args.mode)
    /\ pc' = "captain_returned"
    /\ UNCHANGED << cap_args, ep_vars, req_vars, cache_vars, client_vars, elements, picks, mode, plan, xfer_vars, route_vars >>

NextCaptain == RecommendCaptain

SpecCaptain == InitCaptain /\ [][NextCaptain]_vars

----------------------------------------------------------------------------
(* Two requests on the same cached payload objects (SpecShared) *)

Requests == 1..2

\* Both requests hold references to the same picks and elements; each makes
\* the three calls of the route in order, in any interleaving with the other
InitShared ==
    /\ pc = "shared"
    /\ \E layout \in Layouts, b \in 1..Len(Profiles) :
          /\ elements = MakeElements(layout, [pid \in Squad |-> b]) \o RouteCandidates
          /\ picks = MakePicks(layout)
    /\ payload0 = [picks |-> picks, elements |-> elements]
    /\ req_pc = [r \in Requests |-> "link"]
    /\ req_out = [r \in Requests |-> [linked |-> << >>]]
    /\ mode = "safe"
    /\ plan = Null
    /\ XferIdle
    /\ RouteIdle
    /\ EpIdle /\ CapIdle /\ CacheIdle /\ ClientIdle

ReqLink(r) ==
    /\ req_pc[r] = "link"
    /\ \E rows \in { link_fixtures_for_manager(TargetGW, picks, Fixtures, elements, Teams) } :
         /\ req_out' = [req_out EXCEPT ![r] = [linked |-> rows]]
         /\ picks' = link_fixtures_leaves(picks, elements).picks
         /\ elements' = link_fixtures_leaves(picks, elements).elements
    /\ req_pc' = [req_pc EXCEPT ![r] = "plan"]
    /\ UNCHANGED << pc, mode, plan, xfer_vars, route_vars, ep_vars, cap_vars,
                    cache_vars, client_vars, payload0 >>

ReqPlan(r) ==
    /\ req_pc[r] = "plan"
    /\ \E p \in { plan_gameweek(picks, elements, Teams, fixtures_gw, TargetGW,
                                 ownership_index(elements), mode) } :
         /\ req_out' = [req_out EXCEPT ![r] = [linked |-> req_out[r].linked, plan |-> p]]
         /\ picks' = plan_gameweek_leaves(picks, elements).picks
         /\ elements' = plan_gameweek_leaves(picks, elements).elements
    /\ req_pc' = [req_pc EXCEPT ![r] = "transfers"]
    /\ UNCHANGED << pc, mode, plan, xfer_vars, route_vars, ep_vars, cap_vars,
                    cache_vars, client_vars, payload0 >>

\* The rows handed to suggest_transfers are the request's own list, whose
\* "player" entries are the shared elements
ReqTransfers(r) ==
    /\ req_pc[r] = "transfers"
    /\ \E sug \in { suggest_transfers(req_out[r].linked, elements, 0, hit_allowance(FALSE)) } :
         /\ req_out' = [req_out EXCEPT ![r] =
                           [linked |-> suggest_transfers_leaves(req_out[r].linked,
                                                                elements).pick_rows,
                            plan |-> req_out[r].plan, suggestions |-> sug]]
         /\ elements' = suggest_transfers_leaves(req_out[r].linked, elements).elements
    /\ req_pc' = [req_pc EXCEPT ![r] = "done"]
    /\ UNCHANGED << pc, picks, mode, plan, xfer_vars, route_vars, ep_vars, cap_vars,
                    cache_vars, client_vars, payload0 >>

NextShared == \E r \in Requests : ReqLink(r) \/ ReqPlan(r) \/ ReqTransfers(r)

SpecShared == InitShared /\ [][NextShared]_vars

----------------------------------------------------------------------------
(* fpl_client._get and its TTL cache (SpecCache) *)

\* The resources asked for and the coroutines asking
Urls == { "bootstrap-static", "picks" }
Callers == 1..2

\* Bound: the upstream requests of one run
MaxFetches == 3

\* What can come of "await get_client().get(url)", raise_for_status() and
\* resp.json(): a JSON body; a 2xx body that is not JSON (resp.json() raises
\* a ValueError); a 404; another error status; a timeout or connection error
UpstreamReplies == { "json", "not_json", "404", "500", "network" }

\* The result of a _get call: the data, an HTTPException, or the exception
\* that no except clause of _get catches
Returned(value) == [kind |-> "data", value |-> value]
HttpError(code) == [kind |-> "HTTPException", value |-> code]
Unhandled == [kind |-> "ValueError", value |-> 0]

\* Nothing returned yet
Pending == [kind |-> "pending", value |-> 0]

IdleCall == [pc |-> "idle", url |-> "", ticket |-> 0, answer |-> "", result |-> Pending]

InitCache ==
    /\ pc = "cache"
    /\ cache = [u \in Urls |-> 0]
    /\ fetches = 0
    /\ calls = [c \in Callers |-> IdleCall]
    /\ elements = << >>
    /\ picks = << >>
    /\ mode = "safe"
    /\ plan = Null
    /\ XferIdle
    /\ RouteIdle
    /\ EpIdle /\ CapIdle /\ ReqIdle /\ ClientIdle

\* if url in _CACHE: return _CACHE[url]
GetCached(c, u) ==
    /\ calls[c].pc = "idle"
    /\ cache[u] # 0
    /\ calls' = [calls EXCEPT ![c] = [pc |-> "returned", url |-> u, ticket |-> 0,
                                      answer |-> "", result |-> Returned(cache[u])]]
    /\ UNCHANGED << cache, fetches >>

\* a miss: the request goes out and the coroutine awaits the response; the
\* payload the upstream serves is numbered by the request
GetMiss(c, u) ==
    /\ calls[c].pc = "idle"
    /\ cache[u] = 0
    /\ fetches < MaxFetches
    /\ fetches' = fetches + 1
    /\ calls' = [calls EXCEPT ![c] = [pc |-> "awaiting", url |-> u, ticket |-> fetches + 1,
                                      answer |-> "", result |-> Pending]]
    /\ UNCHANGED cache

\* Mutant of get_answer: a failed fetch is cached like a payload
get_answer_CachesFailures(call, reply, cache_) ==
    [cache |-> [cache_ EXCEPT ![call.url] = call.ticket],
     result |-> CASE reply = "json" -> Returned(call.ticket)
                  [] reply = "not_json" -> Unhandled
                  [] reply = "404" -> HttpError(404)
                  [] OTHER -> HttpError(502)]

\* The try block of _get once the response is in: the cache and the result
get_answer(call, reply, cache_) ==
    CASE reply = "json" ->
             [cache |-> [cache_ EXCEPT ![call.url] = call.ticket],
              result |-> Returned(call.ticket)]
      [] reply = "not_json" -> [cache |-> cache_, result |-> Unhandled]
      [] reply = "404" -> [cache |-> cache_, result |-> HttpError(404)]
      [] OTHER -> [cache |-> cache_, result |-> HttpError(502)]

GetAnswer(c, reply) ==
    /\ calls[c].pc = "awaiting"
    /\ cache' = get_answer(calls[c], reply, cache).cache
    /\ calls' = [calls EXCEPT ![c] = [@ EXCEPT !.pc = "returned", !.answer = reply,
                                               !.result = get_answer(calls[c], reply,
                                                                     cache).result]]
    /\ UNCHANGED fetches

\* The caller goes on and may call again
GetDone(c) ==
    /\ calls[c].pc = "returned"
    /\ calls' = [calls EXCEPT ![c] = IdleCall]
    /\ UNCHANGED << cache, fetches >>

\* The TTL of an entry runs out (or maxsize evicts it)
Expire(u) ==
    /\ cache[u] # 0
    /\ cache' = [cache EXCEPT ![u] = 0]
    /\ UNCHANGED << fetches, calls >>

NextCache ==
    /\ \/ \E c \in Callers, u \in Urls : GetCached(c, u) \/ GetMiss(c, u)
       \/ \E c \in Callers, reply \in UpstreamReplies : GetAnswer(c, reply)
       \/ \E c \in Callers : GetDone(c)
       \/ \E u \in Urls : Expire(u)
    /\ UNCHANGED << plan_vars, xfer_vars, route_vars, ep_vars, cap_vars, req_vars,
                    client_vars >>

SpecCache == InitCache /\ [][NextCache]_vars

----------------------------------------------------------------------------
(* fpl_client.get_client / aclose_client and the shared client (SpecClient) *)

\* The coroutines that use or close the client: request handlers and the
\* lifespan's shutdown
Procs == 1..3

\* Bound: the clients made in one run
MaxClients == 3

\* getattr(_CLIENT, "is_closed", False)
is_closed(client_, clients_) == clients_[client_]

\* Mutant of get_client: a closed client is handed out again
get_client_NoClosedTest(client_, clients_) ==
    IF client_ = 0
    THEN [client |-> Len(clients_) + 1, clients |-> Append(clients_, FALSE)]
    ELSE [client |-> client_, clients |-> clients_]

\* get_client: the global after the call (it is what the call returns) and
\* the clients that exist
get_client(client_, clients_) ==
    IF client_ = 0 \/ is_closed(client_, clients_)
    THEN [client |-> Len(clients_) + 1, clients |-> Append(clients_, FALSE)]
    ELSE [client |-> client_, clients |-> clients_]

IdleProc == [pc |-> "idle", got |-> 0, closing |-> 0, did |-> ""]

InitClient ==
    /\ pc = "client"
    /\ client = 0
    /\ clients = << >>
    /\ procs = [p \in Procs |-> IdleProc]
    /\ last_got = 0
    /\ elements = << >>
    /\ picks = << >>
    /\ mode = "safe"
    /\ plan = Null
    /\ XferIdle
    /\ RouteIdle
    /\ EpIdle /\ CapIdle /\ ReqIdle /\ CacheIdle

\* A call of get_client; it has no await, so it is one step
GetClient(p) ==
    /\ procs[p].pc = "idle"
    /\ \E after \in { get_client(client, clients) } :
         /\ Len(after.clients) <= MaxClients
         /\ client' = after.client
         /\ clients' = after.clients
         /\ procs' = [procs EXCEPT ![p] = [IdleProc EXCEPT !.got = after.client]]
         /\ last_got' = after.client

\* aclose_client finds no client or a closed one and returns
AcloseNothing(p) ==
    /\ procs[p].pc = "idle"
    /\ ~(client # 0 /\ ~is_closed(client, clients))
    /\ procs' = [procs EXCEPT ![p] = [@ EXCEPT !.did = "nothing"]]
    /\ UNCHANGED << client, clients, last_got >>

\* aclose_client finds an open client and awaits its aclose(). When the
\* client starts to report is_closed is httpx's business: at once, or only
\* when the await is over (early_)
AcloseBegin(p, early_) ==
    /\ procs[p].pc = "idle"
    /\ client # 0 /\ ~is_closed(client, clients)
    /\ procs' = [procs EXCEPT ![p] = [@ EXCEPT !.pc = "closing", !.closing = client]]
    /\ clients' = IF early_ THEN [clients EXCEPT ![client] = TRUE] ELSE clients
    /\ last_got' = IF early_ THEN 0 ELSE last_got
    /\ UNCHANGED client

\* The await is over: the client is closed; _CLIENT is not reset
AcloseEnd(p) ==
    /\ procs[p].pc = "closing"
    /\ clients' = [clients EXCEPT ![procs[p].closing] = TRUE]
    /\ last_got' = IF clients[procs[p].closing] THEN last_got ELSE 0
    /\ procs' = [procs EXCEPT ![p] = [@ EXCEPT !.pc = "idle", !.closing = 0, !.did = "closed"]]
    /\ UNCHANGED client

NextClient ==
    /\ \/ \E p \in Procs : GetClient(p) \/ AcloseNothing(p) \/ AcloseEnd(p)
       \/ \E p \in Procs, early_ \in BOOLEAN : AcloseBegin(p, early_)
    /\ UNCHANGED << plan_vars, xfer_vars, route_vars, ep_vars, cap_vars, req_vars,
                    cache_vars >>

SpecClient == InitClient /\ [][NextClient]_vars

----------------------------------------------------------------------------
(* suggest_transfers, one sell slot at a time (SpecTransfers) *)

InitTransfers ==
    /\ pc = "transfers_call"
    /\ \E kinds \in [1..Len(CandidateIds) -> CandidateKinds], squad \in TransferSquads :
          elements = squad \o MakeCandidates(kinds)
    /\ picks = MakePicks(TransferLayout)
    /\ mode = "safe"
    /\ plan = Null
    /\ bank \in {0, MaxBank}
    /\ \E allow_hit \in BOOLEAN : allowance = hit_allowance(allow_hit)
    /\ xfer = Null
    /\ slot = 0
    /\ linked = PickRows
    /\ RouteIdle
    /\ UnitIdle

\* The indexes and scores built before the loop
BeginTransfers ==
    /\ pc = "transfers_call"
    /\ xfer' = transfers_start(linked, elements, bank)
    /\ slot' = 1
    /\ pc' = "transfers_loop"
    /\ UNCHANGED << unit_vars, elements, picks, mode, plan, bank, allowance, linked, route_vars >>

\* One pass of "for out_id in to_replace"
SellSlot ==
    /\ pc = "transfers_loop"
    /\ slot <= Len(xfer.to_replace)
    /\ xfer' = sell_slot(xfer, xfer.to_replace[slot], elements, allowance)
    /\ slot' = slot + 1
    /\ UNCHANGED << unit_vars, pc, elements, picks, mode, plan, bank, allowance, linked, route_vars >>

ReturnSuggestions ==
    /\ pc = "transfers_loop"
    /\ slot > Len(xfer.to_replace)
    /\ pc' = "transfers_returned"
    /\ UNCHANGED << unit_vars, elements, picks, mode, plan, xfer_vars, route_vars >>

NextTransfers == BeginTransfers \/ SellSlot \/ ReturnSuggestions

SpecTransfers == InitTransfers /\ [][NextTransfers]_vars

----------------------------------------------------------------------------
(* The endpoint get_gameweek_planner (Spec) *)

\* max(ids of the current or finished events, default=None)
last_live_of(events) ==
    IF events = {} THEN Null ELSE CHOOSE g \in events : \A h \in events : h <= g

\* fpl_client._get: the HTTPException a failed upstream request becomes
status_of(answer) == IF answer = "404" THEN 404 ELSE 502

\* Replay of the swaps over start_set / bench_set; ok is FALSE where the
\* guardrail raises ValueError
RECURSIVE replay_swaps(_, _, _)
replay_swaps(start_set, bench_set, swaps) ==
    IF swaps = << >> THEN [ok |-> TRUE, start_set |-> start_set]
    ELSE LET inn  == Head(swaps).in_player
             outn == Head(swaps).out_player
             start1 == (start_set \ {outn}) \cup {inn}
             bench1 == (bench_set \ {inn}) \cup {outn}
         IN  IF inn \notin bench_set \/ outn \notin start_set
             THEN [ok |-> FALSE, start_set |-> start_set]
             ELSE IF Cardinality(start1) # 11
             THEN [ok |-> FALSE, start_set |-> start1]
             ELSE replay_swaps(start1, bench1, Tail(swaps))

\* The guardrail without its last two tests
planner_validation_ReplayOnly(data, actions, elems) ==
    LET swaps  == SelectSeq(actions, LAMBDA a : a.type = "swap")
        sorted == SortAsc(swaps, Dict([a \in ToSet(swaps) |-> a.priority]))
    IN  replay_swaps(ToSet(data.current_start), ToSet(data.current_bench), sorted).ok

\* The position map the guardrail builds for the players of both XIs
route_positions(current_start, optimal_start, elems) ==
    LET pids == ToSet(current_start) \cup ToSet(optimal_start)
        code(t) == CASE t = 1 -> "GK" [] t = 2 -> "DEF" [] t = 3 -> "MID" [] t = 4 -> "FWD"
                     [] OTHER -> "MID"
    IN  Dict([pid \in pids |-> code(elems[pid].element_type)])

\* The guardrail: TRUE when no ValueError is raised.  Every swap carries the
\* same bundle_id, so the sort by (bundle_id, priority) is a sort by priority.
planner_validation(data, actions, elems) ==
    LET pids      == ToSet(data.current_start) \cup ToSet(data.optimal_start)
        positions == Dict([pid \in pids |-> position_code(elems[pid].element_type)])
        swaps     == SelectSeq(actions, LAMBDA a : a.type = "swap")
        sorted    == SortAsc(swaps, Dict([a \in ToSet(swaps) |-> a.priority]))
        replayed  == replay_swaps(ToSet(data.current_start), ToSet(data.current_bench), sorted)
    IN  /\ replayed.ok
        /\ replayed.start_set = ToSet(data.optimal_start)
        /\ Cardinality(replayed.start_set) = Len(data.optimal_start)
        /\ formation_str(data.optimal_start, positions) = data.formation_optimal

\* MIN_GAIN = 0.5 in EPUnit
MIN_GAIN == 20000000

\* compact + de-dup by in_element and minimum gain, gain rounded to 2dp
RECURSIVE dedup_transfers(_, _)
dedup_transfers(raw, seen_in) ==
    IF raw = << >> THEN << >>
    ELSE LET s    == Head(raw)
             gain == s.epdelta_in - s.epdelta_out
         IN  IF gain < MIN_GAIN \/ s.in \in seen_in
             THEN dedup_transfers(Tail(raw), seen_in)
             ELSE << [out_element |-> s.out, in_element |-> s.in,
                      epdelta_gain |-> Round2(gain)] >>
                  \o dedup_transfers(Tail(raw), seen_in \cup {s.in})

\* GWPlannerLite built from the plan
planner_data(p, gw_, gw_used) ==
    [gw |-> gw_, picks_gw_used |-> gw_used,
     formation_current |-> p.formation_current, formation_optimal |-> p.formation_optimal,
     current_start |-> p.current_start, current_bench |-> p.current_bench,
     optimal_start |-> p.optimal_start, optimal_bench |-> p.optimal_bench,
     captain |-> p.captain, vice_captain |-> p.vice_captain,
     ep_total_current |-> p.ep_total_current, ep_total_optimal |-> p.ep_total_optimal,
     ep_gain_lineup |-> p.ep_gain_lineup, bench_ep_total |-> p.bench_ep_total,
     chip_eval |-> p.chip_eval, per_player_ep |-> p.per_player_ep]

\* A request with the defaults expand = False, mode = safe, include_transfers
\* = True, allow_hit = False and no bank_override; the picks payload carries
\* entry_history.bank = 0.  A request the endpoint rejects or whose bootstrap
\* fails is drawn once per squad.
Init ==
    /\ pc = "request"
    /\ \E layout \in RouteLayouts, b \in 1..Len(Profiles) :
          /\ elements = MakeElements(layout, [pid \in Squad |-> b]) \o RouteCandidates
          /\ picks = MakePicks(layout)
    /\ mode = "safe"
    /\ plan = Null
    /\ XferIdle
    /\ gw \in {0, TargetGW}
    /\ expand \in BOOLEAN
    /\ strategy \in {"exact", "latest"}
    /\ bootstrap_answer \in {"ok", "502"}
    /\ upstream \in [1..MaxGW -> UpstreamAnswers]
    /\ live_events \in { 1..n : n \in 0..MaxGW }
    /\ (gw = 0 \/ bootstrap_answer # "ok") =>
          /\ gw = TargetGW \/ bootstrap_answer = "ok"
          /\ strategy = "latest" /\ live_events = {} /\ upstream = [g \in 1..MaxGW |-> "ok"]
          /\ expand = FALSE
    /\ cur = Null
    /\ fetched = << >>
    /\ picks_gw_used = Null
    /\ status = 0
    /\ response = Null
    /\ UnitIdle

\* if tid <= 0 or gw <= 0: 422
RejectRequest ==
    /\ pc = "request"
    /\ gw <= 0
    /\ status' = 422
    /\ pc' = "done"
    /\ UNCHANGED << unit_vars, elements, picks, mode, plan, xfer_vars, gw, expand, strategy,
                    bootstrap_answer,
                    upstream, live_events, cur, fetched, picks_gw_used, response >>

\* bootstrap() and fixtures() answer; the code runs on to the first picks request
FetchBootstrap ==
    /\ pc = "request"
    /\ gw > 0
    /\ IF bootstrap_answer # "ok"
       THEN status' = status_of(bootstrap_answer) /\ pc' = "done" /\ cur' = cur
       ELSE IF strategy = "exact"
       THEN status' = status /\ pc' = "picks_exact" /\ cur' = cur
       ELSE IF last_live_of(live_events) = Null \/ last_live_of(live_events) = 0
       THEN status' = 502 /\ pc' = "done" /\ cur' = cur
       ELSE status' = status /\ pc' = "picks_latest" /\ cur' = last_live_of(live_events)
    /\ UNCHANGED << unit_vars, elements, picks, mode, plan, xfer_vars, gw, expand, strategy,
                    bootstrap_answer,
                    upstream, live_events, fetched, picks_gw_used, response >>

\* picks_strategy = exact: manager_picks(tid, gw) answers
FetchPicksExact ==
    /\ pc = "picks_exact"
    /\ fetched' = Append(fetched, gw)
    /\ IF upstream[gw] = "ok"
       THEN picks_gw_used' = gw /\ pc' = "respond" /\ status' = status
       ELSE picks_gw_used' = picks_gw_used /\ pc' = "done" /\ status' = status_of(upstream[gw])
    /\ UNCHANGED << unit_vars, elements, picks, mode, plan, xfer_vars, gw, expand, strategy,
                    bootstrap_answer,
                    upstream, live_events, cur, response >>

\* FetchPicksLatest without the break after a successful request
FetchPicksLatest_NoBreak ==
    /\ pc = "picks_latest"
    /\ cur >= 1
    /\ fetched' = Append(fetched, cur)
    /\ CASE upstream[cur] \in {"ok", "404"} ->
              /\ picks_gw_used' = IF upstream[cur] = "ok" THEN cur ELSE picks_gw_used
              /\ cur' = cur - 1
              /\ IF cur - 1 >= 1 THEN pc' = "picks_latest" /\ status' = status
                 ELSE IF picks_gw_used' # Null THEN pc' = "respond" /\ status' = status
                 ELSE pc' = "done" /\ status' = 404
         [] OTHER ->
              /\ picks_gw_used' = picks_gw_used /\ cur' = cur
              /\ pc' = "done" /\ status' = status_of(upstream[cur])
    /\ UNCHANGED << unit_vars, elements, picks, mode, plan, xfer_vars, gw, expand, strategy,
                    bootstrap_answer,
                    upstream, live_events, response >>

\* picks_strategy = latest: manager_picks(tid, cur) answers inside
\* "while cur >= 1"
FetchPicksLatest ==
    /\ pc = "picks_latest"
    /\ cur >= 1
    /\ fetched' = Append(fetched, cur)
    /\ CASE upstream[cur] = "ok" ->
              /\ picks_gw_used' = cur /\ cur' = cur /\ pc' = "respond" /\ status' = status
         [] upstream[cur] = "404" ->
              /\ picks_gw_used' = picks_gw_used
              /\ cur' = cur - 1
              /\ IF cur - 1 >= 1 THEN pc' = "picks_latest" /\ status' = status
                                 ELSE pc' = "done" /\ status' = 404
         [] OTHER ->
              /\ picks_gw_used' = picks_gw_used /\ cur' = cur
              /\ pc' = "done" /\ status' = status_of(upstream[cur])
    /\ UNCHANGED << unit_vars, elements, picks, mode, plan, xfer_vars, gw, expand, strategy,
                    bootstrap_answer,
                    upstream, live_events, response >>

\* describe_player: the denormalized view of a player
describe_player(element_id, elems, teams) ==
    [id |-> element_id, team_id |-> elems[element_id].team,
     team_name |-> teams[elems[element_id].team].name,
     position |-> position_code(elems[element_id].element_type),
     now_cost |-> elems[element_id].now_cost,
     ownership_pct |-> elems[element_id].selected_by_percent]

\* FixtureCtxExpanded of a compact fixture context; keys left None are
\* dropped when the response is serialized, so they are not built here
expand_fixture(fx, teams) ==
    Dict(fx @@ (IF "opponent_team_id" \in DOMAIN fx
                THEN [opponent_team_name |-> teams[fx.opponent_team_id].name]
                ELSE << >>))

\* One entry of actions_expanded
expand_action(a, elems, teams) ==
    Dict([k \in DOMAIN a |->
            IF k \in {"in_player", "out_player", "player", "old_player"}
            THEN describe_player(a[k], elems, teams)
            ELSE IF k \in {"in_fixture", "out_fixture"}
            THEN expand_fixture(a[k], teams)
            ELSE a[k]])

\* slot(eid, cap, vc) of the expand block
player_slot(row, p, cap, vc, elems, teams) ==
    [player |-> describe_player(row.element, elems, teams),
     fixture |-> expand_fixture(prune_none([opponent_team_id |-> row.fixture_row.opponent_team,
                                            opponent_strength |-> row.fixture_row.opponent_strength,
                                            was_home |-> row.fixture_row.was_home]), teams),
     epdelta |-> EpGet(p.per_player_ep, row.element),
     is_captain |-> cap, is_vice_captain |-> vc]

\* The fields the expand block adds to the response
expanded_fields(p, link_rows, actions, suggestions, elems, teams) ==
    LET row_of(eid) == CHOOSE r \in ToSet(link_rows) : r.element = eid
        slots(ids, flagged) ==
            List([k \in 1..Len(ids) |->
                    player_slot(row_of(ids[k]), p, flagged /\ ids[k] = p.captain,
                                flagged /\ ids[k] = p.vice_captain, elems, teams)])
        base == [current_expanded |-> slots(p.current_start, TRUE),
                 optimal_expanded |-> slots(p.optimal_start, TRUE),
                 bench_expanded   |-> slots(p.optimal_bench, FALSE),
                 actions_expanded |->
                     List([k \in 1..Len(actions) |-> expand_action(actions[k], elems, teams)])]
    IN  IF suggestions = << >> THEN base
        ELSE base @@ [transfer_suggestions_expanded |->
                        List([k \in 1..Len(suggestions) |->
                                [out |-> describe_player(suggestions[k].out_element, elems, teams),
                                 in_ |-> describe_player(suggestions[k].in_element, elems, teams),
                                 epdelta_gain |-> suggestions[k].epdelta_gain]])]

\* The rest of the handler, from link_fixtures_for_manager to the return.
\* The route is declared with response_model_exclude_none, so a field the
\* handler leaves None is not part of the response.
Respond ==
    /\ pc = "respond"
    /\ \E p \in { plan_gameweek(picks, elements, Teams,
                              SelectSeq(Fixtures, LAMBDA f : f.event = gw), gw,
                              ownership_index(elements), mode) } :
         \E data \in { planner_data(p, gw, picks_gw_used) } :
           /\ plan' = p
           /\ IF ~planner_validation(data, p.actions, elements)
              THEN status' = 500 /\ response' = Null
              ELSE \E link_rows \in { link_fixtures_for_manager(gw, picks, Fixtures,
                                                                  elements, Teams) } :
                   \E suggestions \in { dedup_transfers(suggest_transfers(
                                            link_rows, elements, bank, hit_allowance(FALSE)),
                                            {}) } :
                   /\ status' = 200
                   /\ response' =
                        Dict([meta |-> [gw |-> gw, mode |-> mode, allow_hit |-> FALSE,
                                        bank_used |-> bank],
                              data |-> data,
                              actions |-> p.actions,
                              transfer_suggestions |-> suggestions]
                             @@ (IF expand
                                 THEN expanded_fields(p, link_rows, p.actions, suggestions,
                                                      elements, Teams)
                                 ELSE << >>))
    /\ pc' = "done"
    /\ UNCHANGED << unit_vars, elements, picks, mode, xfer_vars, gw, expand, strategy,
                    bootstrap_answer,
                    upstream, live_events, cur, fetched, picks_gw_used >>

Next == RejectRequest \/ FetchBootstrap \/ FetchPicksExact \/ FetchPicksLatest \/ Respond

Spec == Init /\ [][Next]_vars

\* The request under picks_strategy = latest for one squad, from its start
\* to the point where the baseline picks are in hand (pc = "respond") or an
\* error is raised (pc = "done").  Every awaited upstream request is
\* answered: the shared client has a 15 s timeout, so each await returns or
\* raises and the handler is resumed
InitSearch ==
    /\ Init
    /\ strategy = "latest" /\ gw = TargetGW /\ bootstrap_answer = "ok"
    /\ ~expand
    /\ \E layout \in { CHOOSE l \in RouteLayouts : TRUE } :
          /\ elements = MakeElements(layout, [pid \in Squad |-> Len(Profiles)])
                            \o RouteCandidates
          /\ picks = MakePicks(layout)

NextSearch == FetchBootstrap \/ FetchPicksLatest

\* every search step appends to fetched, so fairness is stated over it
SpecSearch == InitSearch /\ [][NextSearch]_vars /\ WF_fetched(FetchPicksLatest)

----------------------------------------------------------------------------
(* Properties of the planner (SpecPlan) *)

\* Position and rounded EP of a squad member as the plan reports them
PosOf(pid) == position_code(elements[pid].element_type)
EpOf(pid) == plan.per_player_ep[pid]

PosCount(ids, pos) == Cardinality({ k \in 1..Len(ids) : PosOf(ids[k]) = pos })

\* The swap actions of a plan, in ascending priority order
RECURSIVE ByPriority(_)
ByPriority(acts) ==
    IF acts = <<>> THEN <<>>
    ELSE LET i == CHOOSE k \in 1..Len(acts) :
                      \A j \in 1..Len(acts) : acts[k].priority <= acts[j].priority
         IN  <<acts[i]>> \o ByPriority(DropAt(acts, i))

PlanSwaps == ByPriority(SelectSeq(plan.actions, LAMBDA a : a.type = "swap"))

\* Remove out_player, add in_player, one swap after the other
RECURSIVE ApplySwaps(_, _)
ApplySwaps(start, swaps) ==
    IF swaps = <<>> THEN start
    ELSE ApplySwaps((start \ {Head(swaps).out_player}) \cup {Head(swaps).in_player},
                    Tail(swaps))

\* The picks mark a legal XI: 11 starters, one goalkeeper, 3-5 DEF, 2-5 MID, 1-3 FWD
StartersOfPicks == { picks[k].element : k \in { j \in 1..Len(picks) : picks[j].multiplier > 0 } }
BenchOfPicks == { picks[k].element : k \in { j \in 1..Len(picks) : picks[j].multiplier <= 0 } }
CountIn(S, pos) == Cardinality({ pid \in S : PosOf(pid) = pos })
LegalXI(S) ==
    /\ Cardinality(S) = 11
    /\ CountIn(S, "GK") = 1
    /\ CountIn(S, "DEF") \in 3..5
    /\ CountIn(S, "MID") \in 2..5
    /\ CountIn(S, "FWD") \in 1..3

\* C1: for a squad with a legal current XI, applying the emitted swap actions
\* in ascending priority order to current_start yields exactly optimal_start.
C1_SwapsReachOptimal ==
    (pc = "planned" /\ LegalXI(StartersOfPicks))
        => ApplySwaps(ToSet(plan.current_start), PlanSwaps) = ToSet(plan.optimal_start)

\* C2: the chosen XI has 11 distinct members, exactly one goalkeeper, and
\* 3-5 defenders, 2-5 midfielders, 1-3 forwards.
C2_StartingXILegal ==
    pc = "planned" =>
        /\ Len(plan.optimal_start) = 11
        /\ Cardinality(ToSet(plan.optimal_start)) = 11
        /\ PosCount(plan.optimal_start, "GK") = 1
        /\ PosCount(plan.optimal_start, "DEF") \in 3..5
        /\ PosCount(plan.optimal_start, "MID") \in 2..5
        /\ PosCount(plan.optimal_start, "FWD") \in 1..3

\* C2 witness: an XI chosen among tied players: a starter and a benched
\* outfielder of the same position carry the same EP, and the XI is not the
\* one the manager fielded
C2_Witness ==
    /\ pc = "planned"
    /\ ToSet(plan.optimal_start) # StartersOfPicks
    /\ \E a \in ToSet(plan.optimal_start), b \in ToSet(plan.optimal_bench) :
          PosOf(a) = PosOf(b) /\ PosOf(a) # "GK" /\ EpOf(a) = EpOf(b)

\* The two goalkeepers of the squad in pick order, and the one the repair keeps
SquadGKs == SelectSeq([k \in 1..Len(picks) |-> picks[k].element], LAMBDA pid : PosOf(pid) = "GK")
KeptGK == IF EpOf(SquadGKs[2]) > EpOf(SquadGKs[1]) THEN SquadGKs[2] ELSE SquadGKs[1]
DemotedGK == IF KeptGK = SquadGKs[1] THEN SquadGKs[2] ELSE SquadGKs[1]
TwoGKStarters ==
    /\ Cardinality(StartersOfPicks) = 11
    /\ CountIn(StartersOfPicks, "GK") = 2
    /\ Len(SquadGKs) = 2

\* C5: with both goalkeepers marked as starters, current_start has 11 members
\* and one goalkeeper (the higher EP, the first listed on a tie), the demoted
\* goalkeeper is the last of current_bench, and a bench outfielder of highest
\* EP has moved from the bench to current_start.
C5_TwoGoalkeepersRepaired ==
    (pc = "planned" /\ TwoGKStarters) =>
        /\ Len(plan.current_start) = 11
        /\ Cardinality(ToSet(plan.current_start)) = 11
        /\ { pid \in ToSet(plan.current_start) : PosOf(pid) = "GK" } = {KeptGK}
        /\ plan.current_bench[Len(plan.current_bench)] = DemotedGK
        /\ \E p \in BenchOfPicks :
              /\ PosOf(p) # "GK"
              /\ \A q \in BenchOfPicks : PosOf(q) # "GK" => EpOf(q) <= EpOf(p)
              /\ ToSet(plan.current_start) = (StartersOfPicks \ {DemotedGK}) \cup {p}
              /\ ToSet(plan.current_bench) = (BenchOfPicks \ {p}) \cup {DemotedGK}

\* C5 witness: the first-listed goalkeeper is the one demoted and the bench
\* outfielders do not all carry the same EP
C5_Witness ==
    /\ pc = "planned"
    /\ TwoGKStarters
    /\ DemotedGK = SquadGKs[1]
    /\ \E p, q \in BenchOfPicks : EpOf(p) < EpOf(q)
    /\ Len(plan.current_start) = 11

\* The chip action of a plan and the two gains it is decided on
ChipOfPlan == plan.actions[Len(plan.actions)]
RECURSIVE SumEp(_)
SumEp(ids) == IF ids = <<>> THEN 0 ELSE EpOf(Head(ids)) + SumEp(Tail(ids))
BenchSum == SumEp(plan.optimal_bench)
CaptainEp == IF plan.captain \in Squad THEN EpOf(plan.captain) ELSE 0

\* C6: chip is BB exactly when the optimal bench sums to >= 12.0, TC exactly
\* when the bench sum is below 12.0 and the captain's EP is >= 4.0, NONE
\* otherwise, and a NONE action carries reason_code below_threshold.
C6_ChipRule ==
    pc = "planned" =>
        /\ ChipOfPlan.type = "chip"
        /\ (ChipOfPlan.chip = "BB") <=> (BenchSum >= 1200)
        /\ (ChipOfPlan.chip = "TC") <=> (BenchSum < 1200 /\ CaptainEp >= 400)
        /\ (ChipOfPlan.chip = "NONE") <=> (BenchSum < 1200 /\ CaptainEp < 400)
        /\ ChipOfPlan.chip = "NONE" =>
              ("reason_code" \in DOMAIN ChipOfPlan /\ ChipOfPlan.reason_code = "below_threshold")

\* C6 witness: both thresholds are met and the bench boost wins
C6_Witness ==
    /\ pc = "planned"
    /\ BenchSum >= 1200
    /\ CaptainEp >= 400
    /\ ChipOfPlan.chip = "BB"

\* Further chip cases the bounds must reach
C6_WitnessTC == pc = "planned" /\ ChipOfPlan.chip = "TC"
C6_WitnessNone == pc = "planned" /\ ChipOfPlan.chip = "NONE"

\* C10: XI and bench are disjoint and cover the squad; the bench has four
\* members, the first three are outfielders in ascending EP order and the
\* last is the goalkeeper left out.
C10_BenchOrder ==
    pc = "planned" =>
        LET xi == plan.optimal_start
            bench == plan.optimal_bench
        IN  /\ ToSet(xi) \cap ToSet(bench) = {}
            /\ ToSet(xi) \cup ToSet(bench) = Squad
            /\ Len(bench) = 4
            /\ \A k \in 1..3 : PosOf(bench[k]) # "GK"
            /\ EpOf(bench[1]) <= EpOf(bench[2])
            /\ EpOf(bench[2]) <= EpOf(bench[3])
            /\ PosOf(bench[4]) = "GK"

\* C10 witness: the three bench outfielders carry three different EPs
C10_Witness ==
    /\ pc = "planned"
    /\ Len(plan.optimal_bench) = 4
    /\ EpOf(plan.optimal_bench[1]) < EpOf(plan.optimal_bench[2])
    /\ EpOf(plan.optimal_bench[2]) < EpOf(plan.optimal_bench[3])

----------------------------------------------------------------------------
(* Properties of the transfer advisor (SpecTransfers) *)

CostOf(pid) == elements[pid].now_cost
TeamOf(pid) == elements[pid].team
TransfersReturned == pc = "transfers_returned"

\* The squad the call started with, and the last element outside it
InitialSquad == { picks[k].element : k \in 1..Len(picks) }
LastCandidate ==
    LET ids == SelectSeq([k \in 1..Len(elements) |-> elements[k].id],
                         LAMBDA pid : pid \notin InitialSquad)
    IN  ids[Len(ids)]

RECURSIVE BankBefore(_)
BankBefore(k) ==
    IF k = 1 THEN bank
    ELSE BankBefore(k - 1) - (CostOf(LastCandidate) - CostOf(xfer.suggestions[k - 1].out))

RECURSIVE ApplyTransfers(_, _)
ApplyTransfers(squad, suggestions) ==
    IF suggestions = << >> THEN squad
    ELSE ApplyTransfers((squad \ {Head(suggestions).out}) \cup {Head(suggestions).in},
                        Tail(suggestions))

TeamCapHolds(squad) ==
    \A tm \in { TeamOf(pid) : pid \in DOMAIN elements } :
        Cardinality({ pid \in squad : TeamOf(pid) = tm }) <= 3

\* C4 as claimed: if the initial squad holds at most 3 players of every team,
\* so does the squad after applying any prefix of the returned suggestions.
C4_TeamCapAfterEveryPrefix ==
    (TransfersReturned /\ TeamCapHolds(InitialSquad)) =>
        \A n \in 0..Len(xfer.suggestions) :
            TeamCapHolds(ApplyTransfers(InitialSquad, Take(xfer.suggestions, n)))

\* Net cost of the suggestions: sum of now_cost(in) - now_cost(out)
RECURSIVE NetCost(_)
NetCost(suggestions) ==
    IF suggestions = << >> THEN 0
    ELSE CostOf(Head(suggestions).in) - CostOf(Head(suggestions).out)
         + NetCost(Tail(suggestions))

\* Players of team tm among the incoming / outgoing players of the suggestions
InsOf(suggestions, tm) ==
    Cardinality({ k \in 1..Len(suggestions) : TeamOf(suggestions[k].in) = tm })
OutsOf(suggestions, tm) ==
    Cardinality({ k \in 1..Len(suggestions) : TeamOf(suggestions[k].out) = tm })

TransfersRunning == pc \in {"transfers_loop", "transfers_returned"}

\* C17 as claimed: after every accepted suggestion the running bank is the
\* call's bank less the net cost of the accepted transfers, every team count
\* is the initial count plus the incoming and minus the outgoing players of
\* that team, and the simulated squad holds each incoming and no outgoing player.
C17_RunningStateReflectsTransfers ==
    TransfersRunning =>
        /\ xfer.bank = bank - NetCost(xfer.suggestions)
        /\ \A tm \in DOMAIN xfer.team_counts :
              xfer.team_counts[tm] =
                  Cardinality({ pid \in InitialSquad : TeamOf(pid) = tm })
                  + InsOf(xfer.suggestions, tm) - OutsOf(xfer.suggestions, tm)
        /\ xfer.squad_ids = ApplyTransfers(InitialSquad, xfer.suggestions)

\* C18 as claimed: every incoming player of a returned suggestion is outside
\* the simulated squad when the suggestion is made and plays in the position of
\* the outgoing player, and no player is the incoming player of two suggestions.
C18_IncomingIsNewAndSamePosition ==
    TransfersReturned =>
        /\ \A k \in 1..Len(xfer.suggestions) :
              /\ xfer.suggestions[k].in
                    \notin ApplyTransfers(InitialSquad, Take(xfer.suggestions, k - 1))
              /\ position_code(elements[xfer.suggestions[k].in].element_type)
                    = position_code(elements[xfer.suggestions[k].out].element_type)
        /\ \A j, k \in 1..Len(xfer.suggestions) :
              j # k => xfer.suggestions[j].in # xfer.suggestions[k].in

\* C19 as claimed: the net cost of all suggestions of one call is at most
\* bank + bank_allowance.
C19_TotalNetCostWithinBudget ==
    TransfersReturned => NetCost(xfer.suggestions) <= bank + allowance

----------------------------------------------------------------------------
(* Properties of the endpoint (Spec) *)

\* The swap actions of a response or plan in ascending priority order,
\* replayed from current_start
ReplayOf(data, actions) ==
    ApplySwaps(ToSet(data.current_start),
               ByPriority(SelectSeq(actions, LAMBDA a : a.type = "swap")))

\* The swaps reproduce optimal_start and formation_optimal is the formation
\* of optimal_start
Consistent(data, actions) ==
    /\ ReplayOf(data, actions) = ToSet(data.optimal_start)
    /\ data.formation_optimal = << PosCount(data.optimal_start, "DEF"),
                                   PosCount(data.optimal_start, "MID"),
                                   PosCount(data.optimal_start, "FWD") >>

\* The request got as far as plan_gameweek: only the guardrail answers 500
\* and only the return answers 200
Planned == pc = "done" /\ status \in {200, 500}

\* C7: a success response always carries swaps that reproduce optimal_start
\* and a formation_optimal that matches the positions; a request whose plan
\* fails either test ends with status 500 and no response body (no plan, no
\* transfer suggestions).
C7_InconsistentPlanFails ==
    /\ status = 200 => Consistent(response.data, response.actions)
    /\ (Planned /\ ~Consistent(plan, plan.actions)) => (status = 500 /\ response = Null)

\* C7 witness: a request whose swaps do not reproduce optimal_start has ended
\* with status 500
C7_Witness ==
    /\ Planned
    /\ ReplayOf(plan, plan.actions) # ToSet(plan.optimal_start)
    /\ status = 500
    /\ response = Null

\* A success response that carries swaps is reached as well
C7_WitnessSuccess ==
    /\ status = 200
    /\ \E k \in 1..Len(response.actions) : response.actions[k].type = "swap"

\* The greatest live gameweek, and the greatest gameweek from there down
\* whose picks request is not answered 404
LastLive == CHOOSE g \in live_events : \A h \in live_events : h <= g
Not404 == { g \in 1..LastLive : upstream[g] # "404" }
GreatestNot404 == CHOOSE g \in Not404 : \A h \in Not404 : h <= g

\* C8: with picks_strategy = latest the picks requests go to last_live,
\* last_live - 1, ... one gameweek lower each time; every request before the
\* last one was answered 404, so nothing is requested after a success; and
\* the gameweek reported as picks_gw_used is the one whose request succeeded,
\* the greatest gameweek in 1..last_live not answered 404.
C8_LatestSearchDescends ==
    strategy = "latest" =>
        /\ \A k \in 1..Len(fetched) : fetched[k] = LastLive - (k - 1) /\ fetched[k] >= 1
        /\ \A k \in 1..(Len(fetched) - 1) : upstream[fetched[k]] = "404"
        /\ picks_gw_used # Null =>
              /\ picks_gw_used = fetched[Len(fetched)]
              /\ upstream[picks_gw_used] = "ok"
              /\ picks_gw_used = GreatestNot404
        /\ status = 200 => response.data.picks_gw_used = picks_gw_used

\* C8 witness: the search went down at least two gameweeks, succeeded above
\* gameweek 1, left a lower gameweek that would have answered unrequested,
\* and the response reports the gameweek it stopped at
C8_Witness ==
    /\ strategy = "latest" /\ status = 200
    /\ Len(fetched) >= 3
    /\ response.data.picks_gw_used = fetched[Len(fetched)]
    /\ \E g \in 1..(picks_gw_used - 1) : upstream[g] = "ok"

----------------------------------------------------------------------------
(* Further properties of the planner (SpecPlan) *)

\* The picks the manager flagged as captain / vice-captain
FlaggedCaptain == { picks[k].element : k \in { j \in 1..Len(picks) : picks[j].is_captain } }
FlaggedVice == { picks[k].element : k \in { j \in 1..Len(picks) : picks[j].is_vice_captain } }
ActionsOfType(t) == SelectSeq(plan.actions, LAMBDA a : a.type = t)

\* C11: a set_captain action (priority 50, naming the recommended captain) is
\* emitted exactly when a captain is recommended and is not the pick flagged
\* is_captain; a set_vice action (priority 60) exactly when a vice is
\* recommended and is not the pick flagged is_vice_captain; never more than
\* one of each.
C11_CaptaincyActionsIffChanged ==
    pc = "planned" =>
        LET caps  == ActionsOfType("set_captain")
            vices == ActionsOfType("set_vice")
        IN  /\ Len(caps) <= 1 /\ Len(vices) <= 1
            /\ Len(caps) = 1 <=> (plan.captain # 0 /\ plan.captain \notin FlaggedCaptain)
            /\ Len(vices) = 1 <=> (plan.vice_captain # 0 /\ plan.vice_captain \notin FlaggedVice)
            /\ \A k \in 1..Len(caps) : caps[k].priority = 50 /\ caps[k].player = plan.captain
            /\ \A k \in 1..Len(vices) : vices[k].priority = 60 /\ vices[k].player = plan.vice_captain

\* C11 witness: the recommended captain is the flagged one, so no set_captain
\* is emitted, while the recommended vice is not the flagged one
C11_Witness ==
    /\ pc = "planned"
    /\ plan.captain \in FlaggedCaptain
    /\ ActionsOfType("set_captain") = << >>
    /\ FlaggedVice # {} /\ plan.vice_captain \notin FlaggedVice
    /\ Len(ActionsOfType("set_vice")) = 1

\* Both recommendations equal the manager's choice and no captaincy action is emitted
C11_WitnessUnchanged ==
    /\ pc = "planned"
    /\ plan.captain \in FlaggedCaptain /\ plan.vice_captain \in FlaggedVice
    /\ ActionsOfType("set_captain") = << >> /\ ActionsOfType("set_vice") = << >>

\* C12 as claimed: every action of the plan, whatever its type and whatever
\* the chip, carries a priority, a reason_code and a reason.
C12_EveryActionHasReasonCode ==
    pc = "planned" =>
        \A k \in 1..Len(plan.actions) :
            {"priority", "reason_code", "reason"} \subseteq DOMAIN plan.actions[k]

----------------------------------------------------------------------------
(* Properties of a blank gameweek (SpecBlank) *)

\* The club of p plays no fixture of the target gameweek
NoFixture(pid) ==
    \A k \in 1..Len(fixtures_gw) :
        fixtures_gw[k].team_h # elements[pid].team /\ fixtures_gw[k].team_a # elements[pid].team

BlankMembers == { pid \in Squad : NoFixture(pid) }

\* C13: a squad member whose club has no fixture in the target gameweek is
\* linked with absent opponent fields, contributes an expected-points value of
\* exactly zero, and the plan is still produced in full.
C13_BlankGameweekHandled ==
    /\ pc \in {"start", "planned"} =>
          \A k \in 1..Len(linked) :
              linked[k].element \in BlankMembers =>
                  /\ linked[k].fixture_row.opponent_team = Null
                  /\ linked[k].fixture_row.opponent_strength = Null
    /\ pc = "planned" =>
          /\ \A pid \in BlankMembers : plan.per_player_ep[pid] = 0
          /\ Len(plan.optimal_start) = 11
          /\ Len(plan.optimal_bench) = 4

\* A member with form and minutes, yet without a fixture, has been planned
C13_Witness ==
    /\ pc = "planned"
    /\ \E pid \in BlankMembers :
          /\ elements[pid].form > 0 /\ elements[pid].minutes > 0
          /\ plan.per_player_ep[pid] = 0
          /\ InSeq(pid, plan.current_start)
          /\ InSeq(pid, plan.optimal_bench)
    /\ \E k \in 1..Len(linked) :
          linked[k].element \in BlankMembers /\ linked[k].fixture_row.opponent_team = Null

----------------------------------------------------------------------------
(* Properties of the scoring function (SpecEP) *)

\* The second argument list is at least the first in form, ict_index and
\* opponent strength number
ArgsOrdered ==
    /\ ep_args[1].player.form <= ep_args[2].player.form
    /\ ep_args[1].player.ict_index <= ep_args[2].player.ict_index
    /\ ep_args[1].opponent_strength <= ep_args[2].opponent_strength

\* C14: with recent minutes fixed, expected_points_delta never decreases when
\* form, ict_index or the opponent strength number grows; strength 5 maps to
\* the multiplier 1.0 and strength 1 to 0.0; the result is never negative.
C14_EpMonotoneNonNegative ==
    pc = "ep_returned" =>
        /\ \A k \in 1..2 : ep_vals[k] >= 0
        /\ ArgsOrdered => ep_vals[1] <= ep_vals[2]
        /\ \A k \in 1..2 :
              /\ ep_args[k].opponent_strength = 1 => ep_vals[k] = 0
              /\ ep_args[k].opponent_strength = 5 =>
                    ep_vals[k] = 4 * 60 * _sigmoid(ep_args[k].recent_minutes)
                                   * (6 * _norm(ep_args[k].player.form, 0, 100, 100)
                                      + 2 * _norm(ep_args[k].player.ict_index, 0, 200, 200))

\* Two calls where the second has strictly more of everything and scores more
C14_Witness ==
    /\ pc = "ep_returned"
    /\ ep_args[1].player.form < ep_args[2].player.form
    /\ ep_args[1].player.ict_index < ep_args[2].player.ict_index
    /\ ep_args[1].opponent_strength < ep_args[2].opponent_strength
    /\ 0 < ep_vals[1]
    /\ ep_vals[1] < ep_vals[2]

----------------------------------------------------------------------------
(* Properties of the formation string (SpecPlan) *)

\* Number of members of ids with the given element_type
TypeCount(ids, t) == Cardinality({ k \in 1..Len(ids) : elements[ids[k]].element_type = t })

\* C15: formation_optimal of every plan is the D-M-F count of optimal_start,
\* the position map of the route's guardrail gives the same string, and the
\* three counts of a valid squad's plan sum to 10.
C15_FormationMatchesOptimalStart ==
    pc = "planned" =>
        /\ plan.formation_optimal = << TypeCount(plan.optimal_start, 2),
                                       TypeCount(plan.optimal_start, 3),
                                       TypeCount(plan.optimal_start, 4) >>
        /\ formation_str(plan.optimal_start,
                         route_positions(plan.current_start, plan.optimal_start, elements))
              = plan.formation_optimal
        /\ plan.formation_optimal[1] + plan.formation_optimal[2] + plan.formation_optimal[3] = 10

\* A plan whose optimal formation differs from the fielded one, with unequal
\* defender and midfielder counts
C15_Witness ==
    /\ pc = "planned"
    /\ plan.formation_optimal # plan.formation_current
    /\ plan.formation_optimal[1] # plan.formation_optimal[2]
    /\ TypeCount(plan.optimal_start, 2) = plan.formation_optimal[1]

----------------------------------------------------------------------------
(* Properties of the compact and the expanded response (Spec) *)

\* No nullable key of the dict holds None
NoNone(d) == \A k \in DOMAIN d \cap NullableKeys : d[k] # Null

\* The nested dicts of an action
NestedKeys == {"factors", "in_fixture", "out_fixture"}

\* C16: a success response carries actions_expanded exactly when the request
\* asked for expand; no compact action has a None-valued field, and no swap
\* fixture context of a compact action names the opponent team.
C16_ExpandedOnlyOnRequest ==
    (pc = "done" /\ status = 200) =>
        /\ ("actions_expanded" \in DOMAIN response) <=> expand
        /\ \A k \in 1..Len(response.actions) :
              LET a == response.actions[k]
              IN  /\ NoNone(a)
                  /\ \A n \in DOMAIN a \cap NestedKeys : NoNone(a[n])
                  /\ a.type = "swap" =>
                        /\ "opponent_team_name" \notin DOMAIN a.in_fixture
                        /\ "opponent_team_name" \notin DOMAIN a.out_fixture

\* An expanded response with a swap whose expanded fixture names the opponent,
\* and a captain action for a squad that had no captain
C16_Witness ==
    /\ pc = "done" /\ status = 200 /\ expand
    /\ \E k \in 1..Len(response.actions) :
          /\ response.actions[k].type = "swap"
          /\ "opponent_team_id" \in DOMAIN response.actions[k].in_fixture
          /\ "opponent_team_name" \in DOMAIN response.actions_expanded[k].in_fixture
    /\ \E k \in 1..Len(response.actions) :
          /\ response.actions[k].type = "set_captain"
          /\ "old_player" \notin DOMAIN response.actions[k]

\* A compact response with a swap and a captain action
C16_WitnessCompact ==
    /\ pc = "done" /\ status = 200 /\ ~expand
    /\ "actions_expanded" \notin DOMAIN response
    /\ \E k \in 1..Len(response.actions) : response.actions[k].type = "swap"
    /\ \E k \in 1..Len(response.actions) :
          /\ response.actions[k].type = "set_captain"
          /\ "old_player" \notin DOMAIN response.actions[k]

----------------------------------------------------------------------------
(* Properties of the greedy swap selection (SpecPlan) *)

\* The accepted pairs in the order they were accepted: swap priorities count
\* up from 10 in that order
AcceptedSwaps == PlanSwaps

\* C20: every accepted swap gains at least 0.20 EP, brings in a player of
\* optimal_start that is not in current_start, takes out a player of
\* current_start that is not in optimal_start, shares no player with an
\* earlier accepted swap, and leaves the trial lineup legal.
C20_GreedySwapsSound ==
    pc = "planned" =>
        /\ \A k \in 1..Len(AcceptedSwaps) :
              LET sw == AcceptedSwaps[k]
              IN  /\ sw.delta_ep >= 20
                  /\ sw.delta_ep = EpOf(sw.in_player) - EpOf(sw.out_player)
                  /\ InSeq(sw.in_player, plan.optimal_start)
                  /\ ~InSeq(sw.in_player, plan.current_start)
                  /\ InSeq(sw.out_player, plan.current_start)
                  /\ ~InSeq(sw.out_player, plan.optimal_start)
                  /\ LegalXI(ApplySwaps(ToSet(plan.current_start), Take(AcceptedSwaps, k)))
        /\ \A j, k \in 1..Len(AcceptedSwaps) :
              j # k => /\ AcceptedSwaps[j].in_player # AcceptedSwaps[k].in_player
                       /\ AcceptedSwaps[j].out_player # AcceptedSwaps[k].out_player

\* Two swaps were accepted and a pair with enough gain was passed over
C20_Witness ==
    /\ pc = "planned"
    /\ Len(AcceptedSwaps) >= 2
    /\ \E i \in ToSet(plan.optimal_start) \ ToSet(plan.current_start) :
          \E o \in ToSet(plan.current_start) \ ToSet(plan.optimal_start) :
              /\ EpOf(i) - EpOf(o) >= 20
              /\ \A k \in 1..Len(AcceptedSwaps) :
                    AcceptedSwaps[k].in_player # i \/ AcceptedSwaps[k].out_player # o

----------------------------------------------------------------------------
(* Properties of the optimal XI and the lineup gain (SpecGain) *)

\* EP in hundredths of the k best squad members of a position
TopSum(pos, k) ==
    LET ids == SortDesc(SelectSeq([j \in 1..Len(picks) |-> picks[j].element],
                                  LAMBDA pid : PosOf(pid) = pos),
                        plan.per_player_ep)
    IN  SumSeq(Take(ids, k), plan.per_player_ep)

\* The outfield formations of a legal XI
LegalFormations ==
    { x \in (3..5) \X (2..5) \X (1..3) : x[1] + x[2] + x[3] = 10 }

\* The most a legal XI of the squad can score, in hundredths: the best
\* goalkeeper and the best d, m and f outfielders of the best formation
BestLegalTotal ==
    LET totals == { TopSum("GK", 1) + TopSum("DEF", x[1]) + TopSum("MID", x[2])
                    + TopSum("FWD", x[3]) : x \in LegalFormations }
    IN  CHOOSE t \in totals : \A u \in totals : u <= t

\* optimal_start is a legal XI and no legal XI of the squad scores more
XIMaximal ==
    /\ LegalXI(ToSet(plan.optimal_start))
    /\ SumSeq(plan.optimal_start, plan.per_player_ep) = BestLegalTotal

\* C21 as claimed: the XI of choose_starting_xi has the greatest total EP of
\* all legal XIs of the squad, and ep_gain_lineup is not negative when the
\* fielded XI is legal.
C21_OptimalXIMaximalGainNonNegative ==
    pc = "planned" =>
        /\ XIMaximal
        /\ LegalXI(StartersOfPicks) => ~plan.ep_gain_lineup.negative

\* The part of C21 that holds: only the sign of ep_gain_lineup fails
C21_XIMaximalOnly == pc = "planned" => XIMaximal

----------------------------------------------------------------------------
(* Termination of the backward picks search (SpecSearch) *)

\* The backward search has run and is over
SearchOver == strategy = "latest" /\ fetched # << >> /\ pc # "picks_latest"
LastFetched == fetched[Len(fetched)]

\* The three ways the search ends
FoundPicks ==
    /\ picks_gw_used # Null
    /\ picks_gw_used = LastFetched
    /\ upstream[LastFetched] = "ok"
NothingFound ==
    /\ picks_gw_used = Null
    /\ pc = "done" /\ status = 404
    /\ Len(fetched) = LastLive /\ LastFetched = 1
    /\ \A g \in 1..LastLive : upstream[g] = "404"
ErrorPropagated ==
    /\ picks_gw_used = Null
    /\ pc = "done" /\ status = 502
    /\ upstream[LastFetched] = "502"
    /\ \A k \in 1..(Len(fetched) - 1) : upstream[fetched[k]] = "404"

\* The search never fetches more than last_live gameweeks, never fetches one
\* twice, and once over it is in exactly one of the three outcomes
SearchBounded ==
    strategy = "latest" /\ live_events # {} =>
        /\ Len(fetched) <= LastLive
        /\ \A j, k \in 1..Len(fetched) : j < k => fetched[j] > fetched[k]
        /\ pc = "picks_latest" => cur = LastLive - Len(fetched) /\ cur >= 1
        /\ SearchOver =>
              /\ FoundPicks \/ NothingFound \/ ErrorPropagated
              /\ ~(FoundPicks /\ NothingFound)
              /\ ~(FoundPicks /\ ErrorPropagated)
              /\ ~(NothingFound /\ ErrorPropagated)

\* C22: the backward picks search always terminates, after at most
\* last_live fetches, in exactly one of three outcomes: a usable picks
\* payload, a 404 when every gameweek from last_live down to 1 answered 404,
\* or the first non-404 upstream error raised at once with no lower gameweek
\* tried.
C22_BackwardSearchTerminates ==
    /\ []SearchBounded
    /\ (pc = "picks_latest") ~> SearchOver

\* C22 witnesses: each of the three outcomes after at least two fetches
C22_WitnessFound == SearchOver /\ FoundPicks /\ Len(fetched) >= 2
C22_WitnessNothing == SearchOver /\ NothingFound /\ Len(fetched) >= 2
C22_WitnessError == SearchOver /\ ErrorPropagated /\ Len(fetched) >= 2
C22_Witness ==
    /\ SearchOver /\ ErrorPropagated
    /\ Len(fetched) >= 2 /\ LastFetched > 1
    /\ \E g \in 1..(LastFetched - 1) : upstream[g] = "ok"

----------------------------------------------------------------------------
(* Properties of recommend_captain_from_ids (SpecCaptain) *)

CaptainReturned == pc = "captain_returned"

\* The scored candidates of the call, in the order of starting_ids
CapRows ==
    captain_scored(cap_args.starting_ids, cap_args.per_player_ep, cap_args.ownership_idx,
                   CapPositions, cap_args.mode)
CapRowOf(pid) == CHOOSE r \in ToSet(CapRows) : r.pid = pid

\* The candidate with the highest score, the earliest in starting_ids where
\* scores tie
CapTop ==
    CapRows[CHOOSE k \in 1..Len(CapRows) :
               /\ \A j \in 1..Len(CapRows) : CapRows[j].score <= CapRows[k].score
               /\ \A j \in 1..(k - 1) : CapRows[j].score < CapRows[k].score]

\* C23: the captain is the candidate with the highest ownership-weighted
\* score, unless that candidate's raw EP is below 0.8, and then the captain
\* is a candidate with the highest raw EP; the vice is the highest-scored
\* candidate other than the captain (0 when there is none).
C23_CaptainByScoreWithFloor ==
    (CaptainReturned /\ CapRows # << >>) =>
        /\ CapTop.base >= LowConfidenceFloor => cap_result.captain = CapTop.pid
        /\ CapTop.base < LowConfidenceFloor =>
              /\ cap_result.captain \in { r.pid : r \in ToSet(CapRows) }
              /\ \A r \in ToSet(CapRows) : r.base <= CapRowOf(cap_result.captain).base
        /\ LET others == { r \in ToSet(CapRows) : r.pid # cap_result.captain }
           IN  IF others = {} THEN cap_result.vice = 0
               ELSE /\ cap_result.vice \in { r.pid : r \in others }
                    /\ \A r \in others : r.score <= CapRowOf(cap_result.vice).score

\* C23 witness: the top-scored candidate is below the floor, another
\* candidate has more raw EP and is captain, and the top-scored one is vice
C23_Witness ==
    /\ CaptainReturned /\ Len(CapRows) = 3
    /\ CapTop.base < LowConfidenceFloor
    /\ cap_result.captain # CapTop.pid
    /\ CapRowOf(cap_result.captain).base > CapTop.base
    /\ cap_result.vice = CapTop.pid

\* C23 witness: two candidates whose exact scores tie (0.8 * 1.5 and
\* 1.2 * 1.0) and whose doubles do not; the later one in starting_ids is captain
C23_WitnessRounding ==
    /\ CaptainReturned /\ cap_args.starting_ids = << 1, 2, 3, 4 >>
    /\ cap_args.mode = "safe"
    /\ cap_args.per_player_ep[2] = 120 /\ cap_args.ownership_idx[2] = 0
    /\ cap_args.per_player_ep[3] = 80 /\ cap_args.ownership_idx[3] = 50
    /\ cap_args.per_player_ep[4] = 0
    /\ cap_result = [captain |-> 3, vice |-> 2]

----------------------------------------------------------------------------
(* Captain and vice of the plan (SpecPlan) *)

\* The outfield players of optimal_start
OutfieldStarters == { pid \in ToSet(plan.optimal_start) : PosOf(pid) # "GK" }

\* C24: the captain and the vice of the plan are outfield players of
\* optimal_start, they differ when the optimal XI has two or more outfield
\* players, and (0, 0) comes back only when it has none.
C24_CaptainViceOutfieldStarters ==
    pc = "planned" =>
        /\ plan.captain # 0 => plan.captain \in OutfieldStarters
        /\ plan.vice_captain # 0 => plan.vice_captain \in OutfieldStarters
        /\ Cardinality(OutfieldStarters) >= 2 =>
              /\ plan.captain # 0 /\ plan.vice_captain # 0
              /\ plan.captain # plan.vice_captain
        /\ (plan.captain = 0 /\ plan.vice_captain = 0) => OutfieldStarters = {}

\* C24 witness: the goalkeeper of the optimal XI has more EP than every
\* outfield starter, and the captain and the vice are two outfield starters
C24_Witness ==
    /\ pc = "planned"
    /\ \E g \in ToSet(plan.optimal_start) :
          /\ PosOf(g) = "GK"
          /\ \A pid \in OutfieldStarters : EpOf(pid) < EpOf(g)
    /\ plan.captain \in OutfieldStarters /\ plan.vice_captain \in OutfieldStarters
    /\ plan.captain # plan.vice_captain
    /\ EpOf(plan.captain) > 0

\* The same of recommend_captain_from_ids on short candidate lists
\* (SpecCaptain): never the goalkeeper, (0, 0) exactly when there is no
\* outfield candidate, vice 0 exactly when there is at most one
CaptainViceOfShortLists ==
    CaptainReturned =>
        LET outfield == { pid \in ToSet(cap_args.starting_ids) : CapPositions[pid] # "GK" }
        IN  /\ cap_result.captain \in outfield \cup {0}
            /\ cap_result.vice \in (outfield \cup {0}) \ {cap_result.captain}
                   \/ cap_result = [captain |-> 0, vice |-> 0]
            /\ cap_result.captain = 0 <=> outfield = {}
            /\ cap_result.vice = 0 <=> Cardinality(outfield) <= 1

----------------------------------------------------------------------------
(* Order of the action list (SpecPlan) *)

SwapCount == Len(ActionsOfType("swap"))

\* C27: the action list is in strictly ascending priority order: the swaps
\* come first with priorities 10, 11, ... in non-increasing order of EP gain
\* and one bundle id, then set_captain (50) and set_vice (60) when present,
\* and exactly one chip action (90) comes last.
C27_ActionsInPriorityOrder ==
    pc = "planned" =>
        LET acts == plan.actions
            n    == Len(acts)
        IN  /\ n >= 1 /\ acts[n].type = "chip" /\ acts[n].priority = 90
            /\ Len(ActionsOfType("chip")) = 1
            /\ Len(ActionsOfType("set_captain")) <= 1
            /\ Len(ActionsOfType("set_vice")) <= 1
            /\ \A k \in 1..(n - 1) : acts[k].priority < acts[k + 1].priority
            /\ \A k \in 1..SwapCount :
                  /\ acts[k].type = "swap" /\ acts[k].priority = 10 + (k - 1)
                  /\ acts[k].bundle_id = acts[1].bundle_id
                  /\ k < SwapCount => acts[k].delta_ep >= acts[k + 1].delta_ep
            /\ \A k \in 1..n :
                  /\ acts[k].type \in {"swap", "set_captain", "set_vice", "chip"}
                  /\ acts[k].type = "set_captain" => acts[k].priority = 50
                  /\ acts[k].type = "set_vice" => acts[k].priority = 60

\* C27 witness: two swaps of different gain, then set_captain, set_vice
\* and the chip action
C27_Witness ==
    /\ pc = "planned"
    /\ SwapCount >= 2
    /\ plan.actions[1].delta_ep > plan.actions[2].delta_ep
    /\ Len(plan.actions) = SwapCount + 3
    /\ plan.actions[SwapCount + 1].type = "set_captain"
    /\ plan.actions[SwapCount + 2].type = "set_vice"

----------------------------------------------------------------------------
(* Sell slots and upgrades of the transfer advisor (SpecTransfers) *)

\* The starters of the picks the call is made with, and the EP the advisor
\* scores a squad member with
StarterIds == { linked[k].element : k \in { j \in 1..Len(linked) : linked[j].multiplier > 0 } }
LinkedRow(pid) == CHOOSE r \in ToSet(linked) : r.element = pid
LinkedEp(pid) ==
    expected_points_delta(LinkedRow(pid).player, strength_or3(LinkedRow(pid).fixture_row),
                          minutes_proxy(LinkedRow(pid).player))

\* C25: every outgoing player of a suggestion is a starter, fewer than three
\* starters have less EP than it, at most three suggestions are returned and
\* their outgoing players are pairwise distinct.
C25_OutgoingAmongThreeWeakestStarters ==
    TransfersReturned =>
        /\ Len(xfer.suggestions) <= 3
        /\ \A k \in 1..Len(xfer.suggestions) :
              LET out == xfer.suggestions[k].out
              IN  /\ out \in StarterIds
                  /\ Cardinality({ pid \in StarterIds : LinkedEp(pid) < LinkedEp(out) }) < 3
        /\ \A j, k \in 1..Len(xfer.suggestions) :
              j # k => xfer.suggestions[j].out # xfer.suggestions[k].out

\* C25 witness: a benched player scores as little as the weakest starters,
\* the candidates could replace it, and the suggestions sell starters only
C25_Witness ==
    /\ TransfersReturned
    /\ Len(xfer.suggestions) >= 2
    /\ \E b \in InitialSquad \ StarterIds :
          /\ \A pid \in StarterIds : LinkedEp(b) <= LinkedEp(pid)
          /\ \E k \in 1..Len(xfer.suggestions) :
                elements[xfer.suggestions[k].in].element_type = elements[b].element_type


\* The EP the advisor scores a candidate with
CandEp(pid) == expected_points_delta(elements[pid], neutral_opp, minutes_proxy(elements[pid]))

\* The suggestions accepted before sell slot s
SlotOf(pid) == CHOOSE i \in 1..Len(xfer.to_replace) : xfer.to_replace[i] = pid
AcceptedBefore(s) == SelectSeq(xfer.suggestions, LAMBDA t : SlotOf(t.out) < s)
AcceptedAt(s) == SelectSeq(xfer.suggestions, LAMBDA t : SlotOf(t.out) = s)

\* The candidates that are legal and strictly better for sell slot s, given
\* the transfers accepted before it: outside the squad as it then stands,
\* in the position of the outgoing player, within the team cap and within
\* the bank that is left plus the allowance
LegalFor(s) ==
    LET out    == xfer.to_replace[s]
        before == AcceptedBefore(s)
        squad  == ApplyTransfers(InitialSquad, before)
    IN  { c \in { elements[k].id : k \in 1..Len(elements) } \ (squad \cup InitialSquad) :
            /\ position_code(elements[c].element_type)
                  = position_code(elements[out].element_type)
            /\ \/ TeamOf(c) = TeamOf(out)
               \/ Cardinality({ pid \in squad : TeamOf(pid) = TeamOf(c) }) < 3
            /\ CostOf(c) - CostOf(out) <= bank - NetCost(before) + allowance
            /\ CandEp(c) > LinkedEp(out) }

\* C26 as claimed: for each sell slot the incoming player has strictly more
\* EP than the outgoing player and the most EP of all candidates legal for
\* the slot; a slot with no legal, strictly better candidate yields no
\* suggestion, and a slot with one yields a suggestion.
C26_BestLegalUpgradePerSlot ==
    TransfersReturned =>
        \A s \in 1..Len(xfer.to_replace) :
            IF AcceptedAt(s) = << >> THEN LegalFor(s) = {}
            ELSE LET t == AcceptedAt(s)[1]
                 IN  /\ t.epdelta_in > t.epdelta_out
                     /\ t.in \in LegalFor(s)
                     /\ \A c \in LegalFor(s) : CandEp(c) <= CandEp(t.in)

\* The part of C26 that holds: each pass of the loop takes the first
\* candidate of most EP among those its own filter lets through, which has
\* strictly more EP than the outgoing player, and takes none when the filter
\* lets none through
C26_BestOfFilteredOnly ==
    [][(pc = "transfers_loop" /\ slot <= Len(xfer.to_replace)) =>
         LET out   == xfer.to_replace[slot]
             legal == legal_candidates(xfer, out, LinkedEp(out), elements, allowance)
         IN  IF legal = << >> THEN xfer'.suggestions = xfer.suggestions
             ELSE LET t == xfer'.suggestions[Len(xfer'.suggestions)]
                  IN  /\ Len(xfer'.suggestions) = Len(xfer.suggestions) + 1
                      /\ t.out = out /\ t.epdelta_in > t.epdelta_out
                      /\ \E k \in 1..Len(legal) : legal[k].pid = t.in
                      /\ \A k \in 1..Len(legal) : legal[k].epd <= t.epdelta_in]_vars

\* No candidate passes for any slot and the call returns an empty list
C26_WitnessEmpty ==
    /\ TransfersReturned /\ xfer.suggestions = << >>
    /\ \A s \in 1..Len(xfer.to_replace) : LegalFor(s) = {}

----------------------------------------------------------------------------
(* Frame of the analysis functions (SpecShared) *)

\* What a request gets when it runs alone on the payload as cached
AloneLinked ==
    link_fixtures_for_manager(TargetGW, payload0.picks, Fixtures, payload0.elements, Teams)
AlonePlan ==
    plan_gameweek(payload0.picks, payload0.elements, Teams, fixtures_gw, TargetGW,
                  ownership_index(payload0.elements), mode)
AloneSuggestions ==
    suggest_transfers(AloneLinked, payload0.elements, 0, hit_allowance(FALSE))

----------------------------------------------------------------------------
(* Properties of _get (SpecCache) *)

\* Caller c starts a call in this step / gets its response in this step
Starts(c) == calls[c].pc = "idle" /\ calls'[c].pc # "idle"
Answered(c) == calls[c].pc = "awaiting" /\ calls'[c].pc = "returned"

\* The upstream is contacted only by a call that misses
ContactOnlyOnMiss ==
    fetches' # fetches =>
        \E c \in Callers : Starts(c) /\ cache[calls'[c].url] = 0 /\ fetches' = fetches + 1

\* A call for a cached url returns the cached payload, contacts nobody and
\* leaves the cache alone
CachedIsServed ==
    \A c \in Callers :
        (Starts(c) /\ cache[calls'[c].url] # 0) =>
            /\ calls'[c].pc = "returned"
            /\ calls'[c].result = Returned(cache[calls'[c].url])
            /\ fetches' = fetches /\ cache' = cache

\* The cache gains or changes an entry only when a fetch has succeeded
StoreOnlyOnSuccess ==
    \A u \in Urls :
        (cache'[u] # cache[u] /\ cache'[u] # 0) =>
            \E c \in Callers : /\ Answered(c) /\ calls[c].url = u
                               /\ calls'[c].answer = "json"
                               /\ calls'[c].result = Returned(cache'[u])

\* A fetch that fails with one of the given replies leaves the cache
\* unchanged and raises 404 for a 404 and 502 otherwise
FailureSurfaces(replies) ==
    \A c \in Callers :
        (Answered(c) /\ calls'[c].answer \in replies) =>
            /\ cache' = cache
            /\ calls'[c].result = HttpError(IF calls'[c].answer = "404" THEN 404 ELSE 502)

\* C29 as claimed: _get contacts the upstream only on a cache miss, serves a
\* cached url from the cache without a request, stores only after a
\* successful fetch, and every failed fetch leaves the cache unchanged and
\* surfaces as 404 when the upstream answered 404 and as 502 otherwise.
C29_CacheMissFetchFailureMapped ==
    [][/\ ContactOnlyOnMiss /\ CachedIsServed /\ StoreOnlyOnSuccess
       /\ FailureSurfaces(UpstreamReplies \ {"json"})]_cache_vars

\* The part of C29 that holds: the same with the failures that httpx
\* reports as exceptions of its own (error statuses, timeouts, connection
\* errors)
C29_HttpxFailuresMapped ==
    [][/\ ContactOnlyOnMiss /\ CachedIsServed /\ StoreOnlyOnSuccess
       /\ FailureSurfaces({"404", "500", "network"})]_cache_vars

\* A cached url is served while another caller's fetch of it is under way
C29_WitnessServed ==
    \E c, d \in Callers :
        /\ calls[c].pc = "returned" /\ calls[c].ticket = 0 /\ calls[c].result.kind = "data"
        /\ calls[d].pc = "awaiting" /\ calls[d].url = calls[c].url

----------------------------------------------------------------------------
(* Properties of the shared client (SpecClient) *)

\* Coroutine p returns from get_client in this step
GotClient(p) == procs[p].pc = "idle" /\ procs'[p].got # 0 /\ client' = procs'[p].got
                /\ last_got' = procs'[p].got /\ procs'[p].did = ""

\* Coroutine p calls aclose_client in this step and there is nothing to close
ClosesNothing(p) ==
    /\ procs[p].pc = "idle" /\ procs'[p].pc = "idle" /\ procs'[p] # procs[p]
    /\ ~(client # 0 /\ ~is_closed(client, clients))

\* C30: whatever get_client and aclose_client calls came before, get_client
\* returns a client that is not closed; it returns the client the previous
\* get_client call returned unless a client was closed in between; and
\* aclose_client changes nothing when there is no client or a closed one.
C30_SharedClientOpenAndReused ==
    [][\A p \in Procs :
          /\ GotClient(p) =>
                /\ ~is_closed(procs'[p].got, clients')
                /\ last_got # 0 => procs'[p].got = last_got
          /\ (ClosesNothing(p) /\ procs'[p].did = "nothing") =>
                client' = client /\ clients' = clients]_client_vars

\* A client was closed, a later aclose_client call found nothing to do and
\* get_client has handed out a new open client, twice
C30_Witness ==
    \E p, q, r \in Procs :
        /\ p # r
        /\ client > 1 /\ is_closed(client - 1, clients) /\ ~is_closed(client, clients)
        /\ procs[p].got = client /\ procs[r].got = client
        /\ procs[q].did = "nothing"

====
